---- MODULE Spec2Model ----
(***************************************************************************)
(* Model of the retrieval engine of personal_assistant:                    *)
(*   vector_stores/supabase_store.py  (embedder, SupabaseVectorStore)      *)
(*   tools/supabase_tools.py          (the agent-facing tool wrappers)     *)
(*                                                                         *)
(* Text is a sequence of one-character strings, so that strip, lower,      *)
(* split, replace, substring tests and ILIKE patterns are computed, not    *)
(* assumed.  A Python value (metadata) is a tagged record; JSON text is    *)
(* the text JsonDumps produces, parsed character by character by           *)
(* JsonLoads.  A callable that may raise returns a record with a field     *)
(* "exc" ("" when it returned normally).  The remote services (embedding   *)
(* service, persistence backend) are outside the repository: whether each  *)
(* of their calls fails is an input of the operation.                      *)
(***************************************************************************)
EXTENDS Integers, Sequences, FiniteSets, TLC

VARIABLES rows, cache, last, embeds, session_records, uuids

vars == <<rows, cache, last, embeds, session_records, uuids>>

(***************************************************************************)
(* Program constants                                                       *)
(***************************************************************************)
TOPK_DEFAULT == 8
BATCH_SIZE == 20
MAX_RETRIES == 3
RETRY_DELAY == 2
CACHE_MAXSIZE == 100
FETCH_CAP == 100
LAST_SUFFIX_INDEX == 3

(***************************************************************************)
(* Bounds of the model                                                     *)
(***************************************************************************)
MaxTopK == 2
MaxBatchLen == 2
MaxExtraTexts == 2
MaxExtraDocs == 1

(***************************************************************************)
(* Python str operations on text (sequences of characters)                 *)
(***************************************************************************)
UpperChars == <<"A", "B", "C", "D", "P", "R", "X", "Z">>
LowerChars == <<"a", "b", "c", "d", "p", "r", "x", "z">>

IsSpace(c) == c \in {" ", "\t", "\n"}

LowerChar(c) ==
    IF \E i \in 1..Len(UpperChars) : UpperChars[i] = c
    THEN LowerChars[CHOOSE i \in 1..Len(UpperChars) : UpperChars[i] = c]
    ELSE c

\* str.lower()
Lower(s) == [i \in 1..Len(s) |-> LowerChar(s[i])]

\* str.replace(c, "") for a one-character c
RemoveChar(s, c) == SelectSeq(s, LAMBDA x : x # c)

RECURSIVE LStrip(_)
LStrip(s) == IF s # <<>> /\ IsSpace(Head(s)) THEN LStrip(Tail(s)) ELSE s

RECURSIVE RStrip(_)
RStrip(s) ==
    IF s # <<>> /\ IsSpace(s[Len(s)]) THEN RStrip(SubSeq(s, 1, Len(s) - 1)) ELSE s

\* str.strip()
Strip(s) == RStrip(LStrip(s))

\* "not text.strip()"
IsBlank(s) == Strip(s) = <<>>

\* str.split() with no argument: the maximal runs of non-whitespace
RECURSIVE SplitFrom(_, _, _)
SplitFrom(s, cur, acc) ==
    IF s = <<>>
    THEN IF cur = <<>> THEN acc ELSE Append(acc, cur)
    ELSE IF IsSpace(Head(s))
         THEN SplitFrom(Tail(s), <<>>, IF cur = <<>> THEN acc ELSE Append(acc, cur))
         ELSE SplitFrom(Tail(s), Append(cur, Head(s)), acc)

SplitWords(s) == SplitFrom(s, <<>>, <<>>)

\* sep.join(words)
RECURSIVE Join(_, _)
Join(sep, words) ==
    IF words = <<>> THEN <<>>
    ELSE IF Len(words) = 1 THEN words[1]
    ELSE words[1] \o sep \o Join(sep, Tail(words))

StartsWith(s, p) == Len(p) <= Len(s) /\ SubSeq(s, 1, Len(p)) = p

\* "needle in hay"
Contains(hay, needle) ==
    \E i \in 0..(Len(hay) - Len(needle)) : SubSeq(hay, i + 1, i + Len(needle)) = needle

\* str.split(sep) for a non-empty separator
RECURSIVE SplitOnFrom(_, _, _, _)
SplitOnFrom(s, sep, cur, acc) ==
    IF s = <<>> THEN Append(acc, cur)
    ELSE IF StartsWith(s, sep)
         THEN SplitOnFrom(SubSeq(s, Len(sep) + 1, Len(s)), sep, <<>>, Append(acc, cur))
         ELSE SplitOnFrom(Tail(s), sep, Append(cur, Head(s)), acc)

SplitOn(s, sep) == SplitOnFrom(s, sep, <<>>, <<>>)

\* SQL LIKE: % matches any run of characters, _ any one character
RECURSIVE Like(_, _)
Like(text, pat) ==
    IF pat = <<>> THEN text = <<>>
    ELSE IF Head(pat) = "%"
         THEN Like(text, Tail(pat)) \/ (text # <<>> /\ Like(Tail(text), pat))
         ELSE /\ text # <<>>
              /\ (Head(pat) = "_" \/ Head(pat) = Head(text))
              /\ Like(Tail(text), Tail(pat))

\* SQL ILIKE: LIKE without regard to case
ILike(text, pat) == Like(Lower(text), Lower(pat))

(***************************************************************************)
(* Python values and the json module                                       *)
(*   a value is [t |-> "none"], [t |-> "bool", v |-> b], [t |-> "int",     *)
(*   v |-> n], [t |-> "str", v |-> text], [t |-> "list", v |-> <<...>>] or *)
(*   [t |-> "dict", v |-> << <<keytext, value>>, ... >>] (insertion order) *)
(***************************************************************************)
PyNone == [t |-> "none"]
PyBool(b) == [t |-> "bool", v |-> b]
PyInt(n) == [t |-> "int", v |-> n]
PyStr(s) == [t |-> "str", v |-> s]
PyList(xs) == [t |-> "list", v |-> xs]
PyDict(kvs) == [t |-> "dict", v |-> kvs]

\* isinstance(x, dict), isinstance(x, str)
IsDict(x) == x.t = "dict"
IsStr(x) == x.t = "str"

DigitChars == <<"0", "1", "2", "3", "4", "5", "6", "7", "8", "9">>

IsDigit(c) == \E d \in 1..10 : DigitChars[d] = c

DigitValue(c) == (CHOOSE d \in 1..10 : DigitChars[d] = c) - 1

RECURSIVE NatToText(_)
NatToText(n) ==
    IF n < 10 THEN <<DigitChars[n + 1]>>
    ELSE NatToText(n \div 10) \o <<DigitChars[(n % 10) + 1]>>

IntToText(n) == IF n < 0 THEN <<"-">> \o NatToText(-n) ELSE NatToText(n)

\* the JSON string literal of a text: quotes and backslashes are escaped
RECURSIVE EscapeText(_)
EscapeText(s) ==
    IF s = <<>> THEN <<>>
    ELSE (IF Head(s) \in {"\"", "\\"} THEN <<"\\", Head(s)>> ELSE <<Head(s)>>)
         \o EscapeText(Tail(s))

Quoted(s) == <<"\"">> \o EscapeText(s) \o <<"\"">>

\* json.dumps with the default separators ", " and ": "
RECURSIVE JsonDumps(_)
JsonDumps(x) ==
    CASE x.t = "none" -> <<"n", "u", "l", "l">>
      [] x.t = "bool" -> IF x.v THEN <<"t", "r", "u", "e">> ELSE <<"f", "a", "l", "s", "e">>
      [] x.t = "int"  -> IntToText(x.v)
      [] x.t = "str"  -> Quoted(x.v)
      [] x.t = "list" ->
            <<"[">> \o Join(<<",", " ">>, [i \in 1..Len(x.v) |-> JsonDumps(x.v[i])]) \o <<"]">>
      [] x.t = "dict" ->
            <<"{">>
            \o Join(<<",", " ">>,
                    [i \in 1..Len(x.v) |->
                        Quoted(x.v[i][1]) \o <<":", " ">> \o JsonDumps(x.v[i][2])])
            \o <<"}">>

\* json.loads: a recursive-descent parser over the characters of s.
\* Each Parse* returns [ok, val, next]: next is the index after what was read.
ParseFail == [ok |-> FALSE, val |-> PyNone, next |-> 0]

RECURSIVE SkipWs(_, _)
SkipWs(s, i) == IF i <= Len(s) /\ IsSpace(s[i]) THEN SkipWs(s, i + 1) ELSE i

HasWord(s, i, w) == i + Len(w) - 1 <= Len(s) /\ SubSeq(s, i, i + Len(w) - 1) = w

RECURSIVE ParseDigits(_, _, _)
ParseDigits(s, i, acc) ==
    IF i <= Len(s) /\ IsDigit(s[i])
    THEN ParseDigits(s, i + 1, acc * 10 + DigitValue(s[i]))
    ELSE [ok |-> TRUE, val |-> PyInt(acc), next |-> i]

ParseNumber(s, i) ==
    IF i <= Len(s) /\ s[i] = "-"
    THEN IF i + 1 <= Len(s) /\ IsDigit(s[i + 1])
         THEN LET r == ParseDigits(s, i + 1, 0)
              IN  [ok |-> TRUE, val |-> PyInt(-(r.val.v)), next |-> r.next]
         ELSE ParseFail
    ELSE IF i <= Len(s) /\ IsDigit(s[i]) THEN ParseDigits(s, i, 0) ELSE ParseFail

\* the characters of a string literal after its opening quote
RECURSIVE ParseChars(_, _, _)
ParseChars(s, i, acc) ==
    IF i > Len(s) THEN ParseFail
    ELSE IF s[i] = "\"" THEN [ok |-> TRUE, val |-> PyStr(acc), next |-> i + 1]
    ELSE IF s[i] = "\\"
         THEN IF i + 1 <= Len(s) /\ s[i + 1] \in {"\"", "\\"}
              THEN ParseChars(s, i + 2, Append(acc, s[i + 1]))
              ELSE ParseFail
         ELSE ParseChars(s, i + 1, Append(acc, s[i]))

RECURSIVE ParseValue(_, _)
RECURSIVE ParseElems(_, _, _)
RECURSIVE ParseMembers(_, _, _)

ParseValue(s, i0) ==
    LET i == SkipWs(s, i0)
    IN  IF i > Len(s) THEN ParseFail
        ELSE IF HasWord(s, i, <<"n", "u", "l", "l">>)
             THEN [ok |-> TRUE, val |-> PyNone, next |-> i + 4]
        ELSE IF HasWord(s, i, <<"t", "r", "u", "e">>)
             THEN [ok |-> TRUE, val |-> PyBool(TRUE), next |-> i + 4]
        ELSE IF HasWord(s, i, <<"f", "a", "l", "s", "e">>)
             THEN [ok |-> TRUE, val |-> PyBool(FALSE), next |-> i + 5]
        ELSE IF s[i] = "\"" THEN ParseChars(s, i + 1, <<>>)
        ELSE IF s[i] = "["
             THEN LET j == SkipWs(s, i + 1)
                  IN  IF j <= Len(s) /\ s[j] = "]"
                      THEN [ok |-> TRUE, val |-> PyList(<<>>), next |-> j + 1]
                      ELSE ParseElems(s, j, <<>>)
        ELSE IF s[i] = "{"
             THEN LET j == SkipWs(s, i + 1)
                  IN  IF j <= Len(s) /\ s[j] = "}"
                      THEN [ok |-> TRUE, val |-> PyDict(<<>>), next |-> j + 1]
                      ELSE ParseMembers(s, j, <<>>)
        ELSE ParseNumber(s, i)

\* value ("," value)* "]"
ParseElems(s, i, acc) ==
    LET r == ParseValue(s, i)
    IN  IF ~r.ok THEN ParseFail
        ELSE LET j == SkipWs(s, r.next)
             IN  IF j > Len(s) THEN ParseFail
                 ELSE IF s[j] = "]"
                      THEN [ok |-> TRUE, val |-> PyList(Append(acc, r.val)), next |-> j + 1]
                 ELSE IF s[j] = "," THEN ParseElems(s, j + 1, Append(acc, r.val))
                 ELSE ParseFail

\* a dict keeps one entry per key: a repeated key takes the later value
PutKey(kvs, k, x) ==
    IF \E n \in 1..Len(kvs) : kvs[n][1] = k
    THEN [n \in 1..Len(kvs) |-> IF kvs[n][1] = k THEN <<k, x>> ELSE kvs[n]]
    ELSE Append(kvs, <<k, x>>)

\* string ":" value ("," string ":" value)* "}"
ParseMembers(s, i0, acc) ==
    LET i == SkipWs(s, i0)
    IN  IF i > Len(s) \/ s[i] # "\"" THEN ParseFail
        ELSE LET k == ParseChars(s, i + 1, <<>>)
             IN  IF ~k.ok THEN ParseFail
                 ELSE LET c == SkipWs(s, k.next)
                      IN  IF c > Len(s) \/ s[c] # ":" THEN ParseFail
                          ELSE LET r == ParseValue(s, c + 1)
                               IN  IF ~r.ok THEN ParseFail
                                   ELSE LET j == SkipWs(s, r.next)
                                            kvs == PutKey(acc, k.val.v, r.val)
                                        IN  IF j > Len(s) THEN ParseFail
                                            ELSE IF s[j] = "}"
                                                 THEN [ok |-> TRUE, val |-> PyDict(kvs),
                                                       next |-> j + 1]
                                            ELSE IF s[j] = ","
                                                 THEN ParseMembers(s, j + 1, kvs)
                                            ELSE ParseFail

\* json.loads(text): exc = "JSONDecodeError" when text is not one JSON document
JsonLoads(s) ==
    LET r == ParseValue(s, 1)
    IN  IF r.ok /\ SkipWs(s, r.next) > Len(s)
        THEN [exc |-> "", val |-> r.val]
        ELSE [exc |-> "JSONDecodeError", val |-> PyNone]

(***************************************************************************)
(* Embedder                                                                *)
(***************************************************************************)
CountChars(s, set) == Cardinality({i \in 1..Len(s) : s[i] \in set})

\* The vector the embedding service returns for a text: a fixed function of
\* the text (two positive integer components stand for the 1536 floats).
ServiceEmbedding(text) ==
    <<1 + CountChars(Lower(text), {"a", "b", "p", "r"}), 1 + CountChars(Lower(text), {"c", "d", "x", "z"})>>

\* EmbedSingleLoop giving up one attempt later
RECURSIVE EmbedSingleLoopOneMore(_, _, _, _)
EmbedSingleLoopOneMore(text, retries, nfail, sleeps) ==
    IF retries < MAX_RETRIES + 1
    THEN IF retries >= nfail
         THEN [exc |-> "", val |-> ServiceEmbedding(text),
               attempts |-> retries + 1, sleeps |-> sleeps]
         ELSE IF retries + 1 >= MAX_RETRIES + 1
              THEN [exc |-> "EmbeddingError", val |-> <<>>,
                    attempts |-> retries + 1, sleeps |-> sleeps]
              ELSE EmbedSingleLoopOneMore(text, retries + 1, nfail, Append(sleeps, RETRY_DELAY))
    ELSE [exc |-> "", val |-> <<>>, attempts |-> retries, sleeps |-> sleeps]

\* The retry loop of _embed_single: nfail is the number of leading attempts
\* of the remote call that fail.  Returns [exc, val, attempts, sleeps].
RECURSIVE EmbedSingleLoop(_, _, _, _)
EmbedSingleLoop(text, retries, nfail, sleeps) ==
    IF retries < MAX_RETRIES
    THEN IF retries >= nfail
         THEN [exc |-> "", val |-> ServiceEmbedding(text),
               attempts |-> retries + 1, sleeps |-> sleeps]
         ELSE IF retries + 1 >= MAX_RETRIES
              THEN [exc |-> "EmbeddingError", val |-> <<>>,
                    attempts |-> retries + 1, sleeps |-> sleeps]
              ELSE EmbedSingleLoop(text, retries + 1, nfail, Append(sleeps, RETRY_DELAY))
    ELSE [exc |-> "", val |-> <<>>, attempts |-> retries, sleeps |-> sleeps]

\* The body of _embed_single (what runs on a cache miss)
EmbedSingleBody(text, nfail) ==
    IF IsBlank(text)
    THEN [exc |-> "ValueError", val |-> <<>>, attempts |-> 0, sleeps |-> <<>>]
    ELSE EmbedSingleLoop(text, 0, nfail, <<>>)

\* functools.lru_cache: c is the sequence of <<text, vector>> entries, least
\* recently used first.
CacheHas(c, text) == \E i \in 1..Len(c) : c[i][1] = text

CacheGet(c, text) == c[CHOOSE i \in 1..Len(c) : c[i][1] = text][2]

\* CacheTouch leaving the entry where it is (first in, first out)
CacheTouchKeepsOrder(c, text) == c

CacheTouch(c, text) ==
    SelectSeq(c, LAMBDA e : e[1] # text) \o <<<<text, CacheGet(c, text)>>>>

\* CachePut making room by dropping the entry used last (most recently)
CachePutEvictsNewest(c, text, vec) ==
    IF Len(c) >= CACHE_MAXSIZE
    THEN Append(SubSeq(c, 1, Len(c) - 1), <<text, vec>>)
    ELSE Append(c, <<text, vec>>)

CachePut(c, text, vec) ==
    IF Len(c) >= CACHE_MAXSIZE
    THEN Append(Tail(c), <<text, vec>>)
    ELSE Append(c, <<text, vec>>)

\* EmbedSingle storing the outcome of every call, failures included
EmbedSingleCachesAll(c, text, nfail) ==
    IF CacheHas(c, text)
    THEN [exc |-> "", val |-> CacheGet(c, text), attempts |-> 0, sleeps |-> <<>>,
          cache |-> CacheTouch(c, text)]
    ELSE LET r == EmbedSingleBody(text, nfail)
         IN  [exc |-> r.exc, val |-> r.val, attempts |-> r.attempts, sleeps |-> r.sleeps,
              cache |-> CachePut(c, text, r.val)]

\* EmbedSingle remembering that the service failed for a text: the failure
\* is stored with an empty vector and replayed on the next call
EmbedSingleRemembersFailure(c, text, nfail) ==
    IF CacheHas(c, text)
    THEN [exc |-> "", val |-> CacheGet(c, text), attempts |-> 0, sleeps |-> <<>>,
          cache |-> CacheTouch(c, text)]
    ELSE LET r == EmbedSingleBody(text, nfail)
         IN  [exc |-> r.exc, val |-> r.val, attempts |-> r.attempts, sleeps |-> r.sleeps,
              cache |-> IF r.exc # "ValueError" THEN CachePut(c, text, r.val) ELSE c]

\* _embed_single behind @lru_cache(maxsize=100): a hit returns the stored
\* vector without running the body; only a normal return is stored.
EmbedSingle(c, text, nfail) ==
    IF CacheHas(c, text)
    THEN [exc |-> "", val |-> CacheGet(c, text), attempts |-> 0, sleeps |-> <<>>,
          cache |-> CacheTouch(c, text)]
    ELSE LET r == EmbedSingleBody(text, nfail)
         IN  [exc |-> r.exc, val |-> r.val, attempts |-> r.attempts, sleeps |-> r.sleeps,
              cache |-> IF r.exc = "" THEN CachePut(c, text, r.val) ELSE c]

\* EmbedBatchLoop giving up only when retries exceeds MAX_RETRIES
RECURSIVE EmbedBatchLoopLateStop(_, _, _, _)
EmbedBatchLoopLateStop(valid, retries, nfail, sleeps) ==
    IF retries < MAX_RETRIES
    THEN IF retries >= nfail
         THEN [exc |-> "", val |-> [i \in 1..Len(valid) |-> ServiceEmbedding(valid[i])],
               attempts |-> retries + 1, sleeps |-> sleeps]
         ELSE IF retries + 1 > MAX_RETRIES
              THEN [exc |-> "EmbeddingError", val |-> <<>>,
                    attempts |-> retries + 1, sleeps |-> sleeps]
              ELSE EmbedBatchLoopLateStop(valid, retries + 1, nfail,
                                          Append(sleeps, RETRY_DELAY * (retries + 1)))
    ELSE [exc |-> "", val |-> <<>>, attempts |-> retries, sleeps |-> sleeps]

\* The retry loop of _embed_batch
RECURSIVE EmbedBatchLoop(_, _, _, _)
EmbedBatchLoop(valid, retries, nfail, sleeps) ==
    IF retries < MAX_RETRIES
    THEN IF retries >= nfail
         THEN [exc |-> "", val |-> [i \in 1..Len(valid) |-> ServiceEmbedding(valid[i])],
               attempts |-> retries + 1, sleeps |-> sleeps]
         ELSE IF retries + 1 >= MAX_RETRIES
              THEN [exc |-> "EmbeddingError", val |-> <<>>,
                    attempts |-> retries + 1, sleeps |-> sleeps]
              ELSE EmbedBatchLoop(valid, retries + 1, nfail,
                                  Append(sleeps, RETRY_DELAY * (retries + 1)))
    ELSE [exc |-> "", val |-> <<>>, attempts |-> retries, sleeps |-> sleeps]

\* EmbedBatch sending every text to the service, blank ones included
EmbedBatchKeepsBlanks(texts, nfail) ==
    IF texts = <<>>
    THEN [exc |-> "", val |-> <<>>, attempts |-> 0, sleeps |-> <<>>]
    ELSE EmbedBatchLoop(texts, 0, nfail, <<>>)

\* _embed_batch(texts)
EmbedBatch(texts, nfail) ==
    IF texts = <<>>
    THEN [exc |-> "", val |-> <<>>, attempts |-> 0, sleeps |-> <<>>]
    ELSE LET valid == SelectSeq(texts, LAMBDA x : ~IsBlank(x))
         IN  IF valid = <<>>
             THEN [exc |-> "", val |-> <<>>, attempts |-> 0, sleeps |-> <<>>]
             ELSE EmbedBatchLoop(valid, 0, nfail, <<>>)

(***************************************************************************)
(* Persistence backend: the "documents" table as the sequence of its rows  *)
(* in store order; doc_id is unique.  A row is                             *)
(*   [doc_id, content, embedding, metadata].                               *)
(***************************************************************************)
HasId(rs, id) == \E i \in 1..Len(rs) : rs[i].doc_id = id

\* DbUpsert with no unique constraint on doc_id: every row is added
DbUpsertAppends(rs, new) == [exc |-> "", rows |-> rs \o new]

\* doc_id TEXT UNIQUE NOT NULL: the statement breaks the constraint when one
\* of its rows has a doc_id that is stored or that another of its rows has
DbConflict(rs, new) ==
    \E i \in 1..Len(new) :
        \/ HasId(rs, new[i].doc_id)
        \/ \E j \in 1..Len(new) : j # i /\ new[j].doc_id = new[i].doc_id

\* table("documents").upsert(rows).execute() with no on_conflict: the
\* backend resolves conflicts on the primary key, the serial column id; the
\* rows carry no id, so each gets a fresh one and none meets a conflict that
\* is resolved.  The statement is one insert: it adds all its rows at the
\* end, or it is refused as a whole for the unique constraint on doc_id and
\* execute() raises
DbUpsert(rs, new) ==
    IF DbConflict(rs, new)
    THEN [exc |-> "APIError", rows |-> rs]
    ELSE [exc |-> "", rows |-> rs \o new]

\* .select("*").eq("doc_id", id)  /  .delete().eq("doc_id", id)
DbSelectEq(rs, id) == SelectSeq(rs, LAMBDA r : r.doc_id = id)

DbDeleteEq(rs, id) == SelectSeq(rs, LAMBDA r : r.doc_id # id)

\* A list of SQL string literals as the database reads it: a literal runs
\* from a quote to the next quote that is not doubled, literals are separated
\* by commas; anything else is a syntax error.  Reads text from position i
\* on; acc is the list of the literals read, cur the literal being read
\* (inside says whether a literal is open).
RECURSIVE SqlLiterals(_, _, _, _, _)
SqlLiterals(text, i, inside, cur, acc) ==
    IF i > Len(text)
    THEN [ok |-> ~inside /\ acc # <<>>, ids |-> acc]
    ELSE IF inside
    THEN IF text[i] # "'"
         THEN SqlLiterals(text, i + 1, TRUE, Append(cur, text[i]), acc)
         ELSE IF i < Len(text) /\ text[i + 1] = "'"
         THEN SqlLiterals(text, i + 2, TRUE, Append(cur, "'"), acc)
         ELSE LET j == SkipWs(text, i + 1)
              IN  IF j > Len(text) THEN [ok |-> TRUE, ids |-> Append(acc, cur)]
                  ELSE IF text[j] = ","
                  THEN SqlLiterals(text, SkipWs(text, j + 1), FALSE, <<>>, Append(acc, cur))
                  ELSE [ok |-> FALSE, ids |-> <<>>]
    ELSE IF text[i] = "'"
    THEN SqlLiterals(text, i + 1, TRUE, <<>>, acc)
    ELSE [ok |-> FALSE, ids |-> <<>>]

\* exec_sql of "DELETE FROM documents WHERE doc_id IN (list) RETURNING doc_id":
\* the rows left and the rows returned, or a syntax error
DbDeleteIn(rs, list) ==
    LET p == SqlLiterals(list, 1, FALSE, <<>>, <<>>)
        Listed(r) == \E n \in 1..Len(p.ids) : p.ids[n] = r.doc_id
    IN  IF p.ok
        THEN [exc |-> "", rows |-> SelectSeq(rs, LAMBDA r : ~Listed(r)),
              data |-> SelectSeq(rs, Listed)]
        ELSE [exc |-> "APIError", rows |-> rs, data |-> <<>>]

Take(xs, n) == SubSeq(xs, 1, IF n < Len(xs) THEN n ELSE Len(xs))

\* .select("*").limit(n)
DbSelectLimit(rs, n) == Take(rs, n)

\* .select("*").ilike("content", pat).limit(n)
DbSelectILike(rs, pat, n) == Take(SelectSeq(rs, LAMBDA r : ILike(r.content, pat)), n)

(***************************************************************************)
(* SupabaseVectorStore: the write path, get and count.                     *)
(* Every method takes the table rs (and the embedding cache c where it     *)
(* embeds) and returns a record with the outcome: exc ("" = returned), the *)
(* return value val, the table and cache afterwards, and the remote calls  *)
(* made.  db is what the backend does with the call: "ok", "raise" (the    *)
(* client raises), "error" (the response carries an error), or for a       *)
(* single upsert "nodata" (written, no representation returned).           *)
(***************************************************************************)
None == PyNone

\* "metadata": json.dumps(metadata) if isinstance(metadata, dict) else metadata
StoredMetadata(metadata) ==
    IF IsDict(metadata) THEN PyStr(JsonDumps(metadata)) ELSE metadata

MakeRow(doc_id, content, embedding, metadata) ==
    [doc_id |-> doc_id, content |-> content, embedding |-> embedding,
     metadata |-> StoredMetadata(metadata)]

\* Upsert validating the id only after the content has been embedded
UpsertEmbedsFirst(rs, c, doc_id, content, metadata, f) ==
    IF IsBlank(content)
    THEN [exc |-> "ValueError", val |-> None, rows |-> rs, cache |-> c,
          attempts |-> 0, writes |-> 0]
    ELSE LET e == EmbedSingle(c, content, f.emb)
             row == MakeRow(doc_id, content, e.val, metadata)
         IN  IF e.exc # ""
             THEN [exc |-> e.exc, val |-> None, rows |-> rs, cache |-> e.cache,
                   attempts |-> e.attempts, writes |-> 0]
             ELSE IF doc_id = <<>>
             THEN [exc |-> "ValueError", val |-> None, rows |-> rs, cache |-> e.cache,
                   attempts |-> e.attempts, writes |-> 0]
             ELSE CASE f.db = "raise" ->
                         [exc |-> "APIError", val |-> None, rows |-> rs, cache |-> e.cache,
                          attempts |-> e.attempts, writes |-> 1]
                    [] f.db = "error" ->
                         [exc |-> "RuntimeError", val |-> None, rows |-> rs,
                          cache |-> e.cache, attempts |-> e.attempts, writes |-> 1]
                    [] f.db \in {"ok", "nodata"} /\ DbUpsert(rs, <<row>>).exc # "" ->
                         [exc |-> DbUpsert(rs, <<row>>).exc, val |-> None, rows |-> rs,
                          cache |-> e.cache, attempts |-> e.attempts, writes |-> 1]
                    [] f.db = "nodata" /\ DbUpsert(rs, <<row>>).exc = "" ->
                         [exc |-> "RuntimeError", val |-> None,
                          rows |-> DbUpsert(rs, <<row>>).rows, cache |-> e.cache,
                          attempts |-> e.attempts, writes |-> 1]
                    [] OTHER ->
                         [exc |-> "", val |-> row, rows |-> DbUpsert(rs, <<row>>).rows,
                          cache |-> e.cache, attempts |-> e.attempts, writes |-> 1]

\* Upsert attempting the write a second time when the first attempt fails
UpsertRetriesWrite(rs, c, doc_id, content, metadata, f) ==
    IF IsBlank(content)
    THEN [exc |-> "ValueError", val |-> None, rows |-> rs, cache |-> c,
          attempts |-> 0, writes |-> 0]
    ELSE IF doc_id = <<>>
    THEN [exc |-> "ValueError", val |-> None, rows |-> rs, cache |-> c,
          attempts |-> 0, writes |-> 0]
    ELSE LET e == EmbedSingle(c, content, f.emb)
             row == MakeRow(doc_id, content, e.val, metadata)
         IN  IF e.exc # ""
             THEN [exc |-> e.exc, val |-> None, rows |-> rs, cache |-> e.cache,
                   attempts |-> e.attempts, writes |-> 0]
             ELSE CASE f.db = "raise" ->
                         [exc |-> "APIError", val |-> None, rows |-> rs, cache |-> e.cache,
                          attempts |-> e.attempts, writes |-> 2]
                    [] f.db = "error" ->
                         [exc |-> "RuntimeError", val |-> None, rows |-> rs,
                          cache |-> e.cache, attempts |-> e.attempts, writes |-> 2]
                    [] f.db \in {"ok", "nodata"} /\ DbUpsert(rs, <<row>>).exc # "" ->
                         [exc |-> DbUpsert(rs, <<row>>).exc, val |-> None, rows |-> rs,
                          cache |-> e.cache, attempts |-> e.attempts, writes |-> 2]
                    [] f.db = "nodata" /\ DbUpsert(rs, <<row>>).exc = "" ->
                         [exc |-> "RuntimeError", val |-> None,
                          rows |-> DbUpsert(rs, <<row>>).rows, cache |-> e.cache,
                          attempts |-> e.attempts, writes |-> 1]
                    [] OTHER ->
                         [exc |-> "", val |-> row, rows |-> DbUpsert(rs, <<row>>).rows,
                          cache |-> e.cache, attempts |-> e.attempts, writes |-> 1]

\* upsert(doc_id, content, metadata);  f = [emb |-> nfail, db |-> outcome]
Upsert(rs, c, doc_id, content, metadata, f) ==
    IF IsBlank(content)
    THEN [exc |-> "ValueError", val |-> None, rows |-> rs, cache |-> c,
          attempts |-> 0, writes |-> 0]
    ELSE IF doc_id = <<>>
    THEN [exc |-> "ValueError", val |-> None, rows |-> rs, cache |-> c,
          attempts |-> 0, writes |-> 0]
    ELSE LET e == EmbedSingle(c, content, f.emb)
             row == MakeRow(doc_id, content, e.val, metadata)
         IN  IF e.exc # ""
             THEN [exc |-> e.exc, val |-> None, rows |-> rs, cache |-> e.cache,
                   attempts |-> e.attempts, writes |-> 0]
             ELSE CASE f.db = "raise" ->
                         [exc |-> "APIError", val |-> None, rows |-> rs, cache |-> e.cache,
                          attempts |-> e.attempts, writes |-> 1]
                    [] f.db = "error" ->
                         [exc |-> "RuntimeError", val |-> None, rows |-> rs,
                          cache |-> e.cache, attempts |-> e.attempts, writes |-> 1]
                    [] f.db \in {"ok", "nodata"} /\ DbUpsert(rs, <<row>>).exc # "" ->
                         [exc |-> DbUpsert(rs, <<row>>).exc, val |-> None, rows |-> rs,
                          cache |-> e.cache, attempts |-> e.attempts, writes |-> 1]
                    [] f.db = "nodata" /\ DbUpsert(rs, <<row>>).exc = "" ->
                         [exc |-> "RuntimeError", val |-> None,
                          rows |-> DbUpsert(rs, <<row>>).rows, cache |-> e.cache,
                          attempts |-> e.attempts, writes |-> 1]
                    [] OTHER ->
                         [exc |-> "", val |-> row, rows |-> DbUpsert(rs, <<row>>).rows,
                          cache |-> e.cache, attempts |-> e.attempts, writes |-> 1]

\* Chunks cutting after size + 1 documents
RECURSIVE ChunksOneMore(_, _)
ChunksOneMore(docs, size) ==
    IF docs = <<>> THEN <<>>
    ELSE IF Len(docs) <= size + 1 THEN <<docs>>
    ELSE <<SubSeq(docs, 1, size + 1)>>
         \o ChunksOneMore(SubSeq(docs, size + 2, Len(docs)), size)

\* batches = [documents[i:i + _BATCH_SIZE] for i in range(0, len(documents), _BATCH_SIZE)]
RECURSIVE Chunks(_, _)
Chunks(docs, size) ==
    IF docs = <<>> THEN <<>>
    ELSE IF Len(docs) <= size THEN <<docs>>
    ELSE <<SubSeq(docs, 1, size)>> \o Chunks(SubSeq(docs, size + 1, Len(docs)), size)

\* "content" in doc and doc["content"]
HasContent(doc) == doc.content # <<>>

\* rows of one batch: document i (from 0) gets embeddings[i] when there is one
BatchRows(batch, embeddings) ==
    LET keep == {i \in 1..Len(batch) : (i - 1) < Len(embeddings) /\ HasContent(batch[i])}
        RECURSIVE Build(_)
        Build(i) ==
            IF i > Len(batch) THEN <<>>
            ELSE (IF i \in keep
                  THEN <<MakeRow(batch[i].doc_id, batch[i].content, embeddings[i],
                                 batch[i].metadata)>>
                  ELSE <<>>)
                 \o Build(i + 1)
    IN  Build(1)

\* the loop "for batch in batches" from batch number k on;
\* f = [emb |-> <<nfail per batch>>, db |-> <<outcome per batch>>];
\* chunk is the number of the batch whose failure ended the loop (0: none);
\* calls = <<embedding attempts, writes, log>>, where log lists the remote
\* calls in the order they were issued
RECURSIVE UpsertBatchLoop(_, _, _, _, _, _)
UpsertBatchLoop(rs, batches, k, results, f, calls) ==
    IF k > Len(batches)
    THEN [exc |-> "", val |-> results, rows |-> rs,
          embed_calls |-> calls[1], writes |-> calls[2], chunk |-> 0, log |-> calls[3]]
    ELSE LET batch == batches[k]
             contents == [i \in 1..Len(SelectSeq(batch, HasContent)) |->
                              SelectSeq(batch, HasContent)[i].content]
         IN  IF contents = <<>>
             THEN UpsertBatchLoop(rs, batches, k + 1, results, f, calls)
             ELSE LET e == EmbedBatch(contents, f.emb[k])
                      new == BatchRows(batch, e.val)
                      embedded ==
                          <<calls[1] + e.attempts, calls[2],
                            calls[3] \o [a \in 1..e.attempts |->
                                           [call |-> "embed", chunk |-> k,
                                            input |-> SelectSeq(contents,
                                                                LAMBDA x : ~IsBlank(x))]]>>
                      written ==
                          <<embedded[1], calls[2] + 1,
                            Append(embedded[3],
                                   [call |-> "write", chunk |-> k,
                                    ids |-> [i \in 1..Len(new) |-> new[i].doc_id]])>>
                  IN  IF e.exc # ""
                      THEN [exc |-> e.exc, val |-> <<>>, rows |-> rs,
                            embed_calls |-> embedded[1], writes |-> embedded[2],
                            chunk |-> k, log |-> embedded[3]]
                      ELSE IF new = <<>>
                      THEN UpsertBatchLoop(rs, batches, k + 1, results, f, embedded)
                      ELSE IF f.db[k] = "raise"
                      THEN [exc |-> "APIError", val |-> <<>>, rows |-> rs,
                            embed_calls |-> written[1], writes |-> written[2],
                            chunk |-> k, log |-> written[3]]
                      ELSE IF f.db[k] = "error"
                      THEN [exc |-> "RuntimeError", val |-> <<>>, rows |-> rs,
                            embed_calls |-> written[1], writes |-> written[2],
                            chunk |-> k, log |-> written[3]]
                      ELSE IF DbUpsert(rs, new).exc # ""
                      THEN [exc |-> DbUpsert(rs, new).exc, val |-> <<>>, rows |-> rs,
                            embed_calls |-> written[1], writes |-> written[2],
                            chunk |-> k, log |-> written[3]]
                      ELSE UpsertBatchLoop(DbUpsert(rs, new).rows, batches, k + 1,
                                           results \o new, f, written)

\* upsert_batch(documents)
UpsertBatch(rs, documents, f) ==
    IF documents = <<>>
    THEN [exc |-> "", val |-> <<>>, rows |-> rs, embed_calls |-> 0, writes |-> 0,
          chunk |-> 0, log |-> <<>>]
    ELSE UpsertBatchLoop(rs, Chunks(documents, BATCH_SIZE), 1, <<>>, f, <<0, 0, <<>>>>)

\* Delete reporting on the table instead of on the rows the call deleted
DeleteAnyRow(rs, doc_id, db) ==
    IF db = "ok"
    THEN [exc |-> "", val |-> Len(rs) > 0, rows |-> DbDeleteEq(rs, doc_id)]
    ELSE [exc |-> "", val |-> FALSE, rows |-> rs]

\* delete(doc_id): True when the backend returned deleted rows
Delete(rs, doc_id, db) ==
    IF db = "ok"
    THEN [exc |-> "", val |-> Len(DbSelectEq(rs, doc_id)) > 0,
          rows |-> DbDeleteEq(rs, doc_id)]
    ELSE [exc |-> "", val |-> FALSE, rows |-> rs]

\* ", ".join(f"'{doc_id}'" for doc_id in doc_ids)
SqlIdList(doc_ids) ==
    Join(<<",", " ">>, [i \in 1..Len(doc_ids) |-> <<"'">> \o doc_ids[i] \o <<"'">>])

\* delete_batch(doc_ids): the number of rows the statement returned; 0 when
\* the list is empty (no call is made) and when the call fails
DeleteBatch(rs, doc_ids, db) ==
    IF doc_ids = <<>>
    THEN [exc |-> "", val |-> 0, rows |-> rs, calls |-> 0]
    ELSE LET d == DbDeleteIn(rs, SqlIdList(doc_ids))
         IN  IF db = "ok" /\ d.exc = ""
             THEN [exc |-> "", val |-> Len(d.data), rows |-> d.rows, calls |-> 1]
             ELSE [exc |-> "", val |-> 0, rows |-> rs, calls |-> 1]

\* ParsedMetadata with the parse left out: the stored str is handed back
ParsedMetadataUnparsed(metadata) == metadata

\* json.loads of a str metadata, kept as it is when it is not JSON
ParsedMetadata(metadata) ==
    IF IsStr(metadata)
    THEN IF JsonLoads(metadata.v).exc = "" THEN JsonLoads(metadata.v).val ELSE metadata
    ELSE metadata

\* get_document(doc_id): the row with its metadata parsed, or None
GetDocument(rs, doc_id, db) ==
    IF db = "ok"
    THEN IF DbSelectEq(rs, doc_id) = <<>>
         THEN [exc |-> "", val |-> None]
         ELSE [exc |-> "",
               val |-> [DbSelectEq(rs, doc_id)[1] EXCEPT
                          !.metadata = ParsedMetadata(DbSelectEq(rs, doc_id)[1].metadata)]]
    ELSE [exc |-> "", val |-> None]

\* count_documents()
CountDocuments(rs, db) ==
    IF db = "ok" THEN [exc |-> "", val |-> Len(rs)] ELSE [exc |-> "", val |-> 0]

(***************************************************************************)
(* Similarity search and lexical fallback.                                 *)
(* log is the sequence of remote calls issued, in order.                   *)
(*   f = [emb |-> number of leading embedding attempts that fail,          *)
(*        sim |-> "ok" | "raise" | "error" | "empty": the similarity       *)
(*                query runs, raises, answers with an error, or answers    *)
(*                with no data,                                            *)
(*        fb  |-> n: the n-th query issued inside the try block of         *)
(*                search_fallback raises (0: none does),                   *)
(*        lastresort |-> "ok" | "raise"      (the query of the handler)]   *)
(***************************************************************************)
Dot(u, v) == u[1] * v[1] + u[2] * v[2]

\* Nearer comparing inner products instead of cosine distances
NearerByDot(q, u, v) == Dot(q, u) > Dot(q, v)

\* u is strictly nearer to q than v in cosine distance (components are positive)
Nearer(q, u, v) == Dot(q, u) * Dot(q, u) * Dot(v, v) > Dot(q, v) * Dot(q, v) * Dot(u, u)

\* ORDER BY embedding <=> q: the position of row i in the ranking
SimRank(rs, q, i) ==
    1 + Cardinality({j \in 1..Len(rs) :
            \/ Nearer(q, rs[j].embedding, rs[i].embedding)
            \/ (~Nearer(q, rs[i].embedding, rs[j].embedding) /\ j < i)})

\* one row of the similarity query: doc_id, content, metadata and the score
\* 1 - cosine distance, kept as the pair (dot product, product of the squared norms)
SimRow(r, q) ==
    [doc_id |-> r.doc_id, content |-> r.content, metadata |-> r.metadata,
     score |-> [dot |-> Dot(q, r.embedding), norms2 |-> Dot(q, q) * Dot(r.embedding, r.embedding)]]

\* DbSimilarity ranking the farthest rows first (ORDER BY ... DESC)
DbSimilarityFarthestFirst(rs, q, k) ==
    Take([n \in 1..Len(rs) |->
             SimRow(rs[CHOOSE i \in 1..Len(rs) : SimRank(rs, q, i) = Len(rs) + 1 - n], q)], k)

\* SELECT ... FROM documents ORDER BY embedding <=> q LIMIT k
DbSimilarity(rs, q, k) ==
    Take([n \in 1..Len(rs) |-> SimRow(rs[CHOOSE i \in 1..Len(rs) : SimRank(rs, q, i) = n], q)], k)

ProjectWord == <<"p", "r", "o", "j", "e", "c", "t">>

\* query.lower().replace("?", "").replace(".", "").split()
QueryWords(query) == SplitWords(RemoveChar(RemoveChar(Lower(query), "?"), "."))

\* SuffixPattern taking query_words[i + 1:]
SuffixPatternSkipsWord(words, i) ==
    <<"%">> \o Join(<<"%">>, SubSeq(words, i + 2, Len(words))) \o <<"%">>

\* "%" + "%".join(query_words[i:]) + "%"   (i counts from 0)
SuffixPattern(words, i) == <<"%">> \o Join(<<"%">>, SubSeq(words, i + 1, Len(words))) \o <<"%">>

ILikeCall(pat, n) == [call |-> "ilike", pattern |-> pat, limit |-> n]
SelectCall(n) == [call |-> "select", limit |-> n]
EmbedCall(text) == [call |-> "embed", input |-> text]
RpcCall(q, k) == [call |-> "rpc", vec |-> q, k |-> k]

\* FallbackStage1 trying every suffix of the query, however many words it has
RECURSIVE FallbackStage1NoCap(_, _, _, _, _, _)
FallbackStage1NoCap(rs, words, i, top_k, fb, log) ==
    IF i >= Len(words)
    THEN [done |-> FALSE, exc |-> "", val |-> <<>>, log |-> log]
    ELSE LET pat == SuffixPattern(words, i)
             log2 == Append(log, ILikeCall(pat, top_k))
             data == DbSelectILike(rs, pat, top_k)
         IN  IF Len(log2) = fb
             THEN [done |-> TRUE, exc |-> "APIError", val |-> <<>>, log |-> log2]
             ELSE IF Len(data) > 0
             THEN [done |-> TRUE, exc |-> "", val |-> data, log |-> log2]
             ELSE FallbackStage1NoCap(rs, words, i + 1, top_k, fb, log2)

\* stage 1: "for i in range(len(query_words))", from index i on
RECURSIVE FallbackStage1(_, _, _, _, _, _)
FallbackStage1(rs, words, i, top_k, fb, log) ==
    IF i >= Len(words) \/ i > LAST_SUFFIX_INDEX
    THEN [done |-> FALSE, exc |-> "", val |-> <<>>, log |-> log]
    ELSE LET pat == SuffixPattern(words, i)
             log2 == Append(log, ILikeCall(pat, top_k))
             data == DbSelectILike(rs, pat, top_k)
         IN  IF Len(log2) = fb
             THEN [done |-> TRUE, exc |-> "APIError", val |-> <<>>, log |-> log2]
             ELSE IF Len(data) > 0
             THEN [done |-> TRUE, exc |-> "", val |-> data, log |-> log2]
             ELSE FallbackStage1(rs, words, i + 1, top_k, fb, log2)

\* stage 2: the "project" heuristic
FallbackStage2(rs, query, top_k, fb, log) ==
    IF Contains(Lower(query), ProjectWord)
    THEN LET after == SplitWords(Strip(SplitOn(Lower(query), ProjectWord)[2]))
         IN  IF after = <<>>
             THEN [done |-> TRUE, exc |-> "IndexError", val |-> <<>>, log |-> log]
             ELSE LET pat == <<"%">> \o ProjectWord \o <<" ">> \o after[1] \o <<"%">>
                      log2 == Append(log, ILikeCall(pat, top_k))
                      data == DbSelectILike(rs, pat, top_k)
                  IN  IF Len(log2) = fb
                      THEN [done |-> TRUE, exc |-> "APIError", val |-> <<>>, log |-> log2]
                      ELSE IF Len(data) > 0
                      THEN [done |-> TRUE, exc |-> "", val |-> data, log |-> log2]
                      ELSE [done |-> FALSE, exc |-> "", val |-> <<>>, log |-> log2]
    ELSE [done |-> FALSE, exc |-> "", val |-> <<>>, log |-> log]

\* any(term in content for term in query_terms)
AnyTermIn(terms, content) ==
    \E n \in 1..Len(terms) : Contains(Lower(content), terms[n])

\* the loop "for doc in response.data" of stage 3
RECURSIVE ClientFilter(_, _, _, _)
ClientFilter(docs, terms, top_k, results) ==
    IF docs = <<>> THEN results
    ELSE IF AnyTermIn(terms, Head(docs).content)
         THEN IF Len(results) + 1 >= top_k
              THEN Append(results, Head(docs))
              ELSE ClientFilter(Tail(docs), terms, top_k, Append(results, Head(docs)))
         ELSE ClientFilter(Tail(docs), terms, top_k, results)

\* stage 3: fetch up to 100 documents and filter them client-side
FallbackStage3(rs, query, top_k, fb, log) ==
    LET log2 == Append(log, SelectCall(FETCH_CAP))
        data == DbSelectLimit(rs, FETCH_CAP)
    IN  IF Len(log2) = fb
        THEN [done |-> TRUE, exc |-> "APIError", val |-> <<>>, log |-> log2]
        ELSE IF data # <<>>
        THEN [done |-> TRUE, exc |-> "",
              val |-> Take(ClientFilter(data, QueryWords(query), top_k, <<>>), top_k),
              log |-> log2]
        ELSE [done |-> TRUE, exc |-> "", val |-> <<>>, log |-> log2]

\* the try block of search_fallback
FallbackTry(rs, query, top_k, fb) ==
    LET s1 == FallbackStage1(rs, QueryWords(query), 0, top_k, fb, <<>>)
        s2 == FallbackStage2(rs, query, top_k, fb, s1.log)
    IN  IF s1.done THEN s1
        ELSE IF s2.done THEN s2
        ELSE FallbackStage3(rs, query, top_k, fb, s2.log)

\* SearchFallback whose handler lets the failure of its own query escape
SearchFallbackReraises(rs, query, top_k, f) ==
    LET t == FallbackTry(rs, query, top_k, f.fb)
    IN  IF t.exc = ""
        THEN [exc |-> "", val |-> t.val, log |-> t.log, handler |-> FALSE]
        ELSE [exc |-> IF f.lastresort = "ok" THEN "" ELSE "APIError",
              val |-> IF f.lastresort = "ok" THEN DbSelectLimit(rs, top_k) ELSE <<>>,
              log |-> Append(t.log, SelectCall(top_k)), handler |-> TRUE]

\* SearchFallback whose handler gives up with [] instead of fetching documents
SearchFallbackGivesUp(rs, query, top_k, f) ==
    LET t == FallbackTry(rs, query, top_k, f.fb)
    IN  IF t.exc = ""
        THEN [exc |-> "", val |-> t.val, log |-> t.log, handler |-> FALSE]
        ELSE [exc |-> "", val |-> <<>>, log |-> t.log, handler |-> TRUE]

\* SearchFallback whose handler fetches with the cap of stage 3, not top_k
SearchFallbackUncapped(rs, query, top_k, f) ==
    LET t == FallbackTry(rs, query, top_k, f.fb)
    IN  IF t.exc = ""
        THEN [exc |-> "", val |-> t.val, log |-> t.log, handler |-> FALSE]
        ELSE [exc |-> "",
              val |-> IF f.lastresort = "ok" THEN DbSelectLimit(rs, FETCH_CAP) ELSE <<>>,
              log |-> Append(t.log, SelectCall(FETCH_CAP)), handler |-> TRUE]

\* search_fallback(query, top_k): the handler returns any documents, or []
SearchFallback(rs, query, top_k, f) ==
    LET t == FallbackTry(rs, query, top_k, f.fb)
    IN  IF t.exc = ""
        THEN [exc |-> "", val |-> t.val, log |-> t.log, handler |-> FALSE]
        ELSE [exc |-> "",
              val |-> IF f.lastresort = "ok" THEN DbSelectLimit(rs, top_k) ELSE <<>>,
              log |-> Append(t.log, SelectCall(top_k)), handler |-> TRUE]

\* search(query, top_k) passing control to search_fallback(query, top_k)
ViaFallback(rs, c, query, top_k, f, log) ==
    LET r == SearchFallback(rs, query, top_k, f)
    IN  [exc |-> r.exc, val |-> r.val, cache |-> c, log |-> log \o r.log,
         fallback |-> <<[query |-> query, top_k |-> top_k, handler |-> r.handler]>>]

ParsedRows(data) ==
    [i \in 1..Len(data) |-> [data[i] EXCEPT !.metadata = ParsedMetadata(data[i].metadata)]]

\* Search returning the empty similarity result instead of falling back
SearchKeepsEmpty(rs, c, query, top_k, f) ==
    IF IsBlank(query)
    THEN ViaFallback(rs, c, query, top_k, f, <<>>)
    ELSE LET e == EmbedSingle(c, query, f.emb)
             elog == [i \in 1..e.attempts |-> EmbedCall(query)]
             qlog == Append(elog, RpcCall(e.val, top_k))
             data == IF f.sim = "empty" THEN <<>>
                     ELSE ParsedRows(DbSimilarity(rs, e.val, top_k))
         IN  IF e.exc # "" THEN ViaFallback(rs, e.cache, query, top_k, f, elog)
             ELSE IF f.sim \in {"raise", "error"}
             THEN ViaFallback(rs, e.cache, query, top_k, f, qlog)
             ELSE [exc |-> "", val |-> data, cache |-> e.cache, log |-> qlog,
                   fallback |-> <<>>]

\* search(query, top_k)
Search(rs, c, query, top_k, f) ==
    IF IsBlank(query)
    THEN ViaFallback(rs, c, query, top_k, f, <<>>)
    ELSE LET e == EmbedSingle(c, query, f.emb)
             elog == [i \in 1..e.attempts |-> EmbedCall(query)]
             qlog == Append(elog, RpcCall(e.val, top_k))
             data == IF f.sim = "empty" THEN <<>>
                     ELSE ParsedRows(DbSimilarity(rs, e.val, top_k))
         IN  IF e.exc # "" THEN ViaFallback(rs, e.cache, query, top_k, f, elog)
             ELSE IF f.sim \in {"raise", "error"}
             THEN ViaFallback(rs, e.cache, query, top_k, f, qlog)
             ELSE IF data = <<>> THEN ViaFallback(rs, e.cache, query, top_k, f, qlog)
             ELSE [exc |-> "", val |-> data, cache |-> e.cache, log |-> qlog,
                   fallback |-> <<>>]

\* search(query, top_k, score_threshold): the signature of search has the
\* parameters query and top_k only, so the call raises before the body runs
SearchThreshold(rs, c, query, top_k, threshold, f) ==
    [exc |-> "TypeError", val |-> <<>>, cache |-> c, log |-> <<>>, fallback |-> <<>>]

\* the text of the errors the remote services report
ServiceErrorText ==
    <<"s", "e", "r", "v", "i", "c", "e", " ", "u", "n", "a", "v", "a", "i",
      "l", "a", "b", "l", "e">>

\* str(e) of the exception upsert_batch lets through
BatchErrorMessage(exc) ==
    IF exc = "RuntimeError"
    THEN
         <<"B", "a", "t", "c", "h", " ", "u", "p", "s", "e", "r", "t", " ",
           "e", "r", "r", "o", "r", ":", " ">>
         \o ServiceErrorText
    ELSE ServiceErrorText

\* the response of supabase_upsert_batch
ToolBatchResponse(r) ==
    IF r.exc = ""
    THEN [status |-> "success",
          message |->
              <<"S", "u", "c", "c", "e", "s", "s", "f", "u", "l", "l", "y",
                " ", "p", "r", "o", "c", "e", "s", "s", "e", "d", " ">>
              \o NatToText(Len(r.val)) \o
              <<" ", "d", "o", "c", "u", "m", "e", "n", "t", "s">>,
          count |-> Len(r.val)]
    ELSE [status |-> "error", message |-> BatchErrorMessage(r.exc)]

(***************************************************************************)
(* tools/supabase_tools.py: the response each tool builds from the store   *)
(* method's outcome r                                                      *)
(***************************************************************************)
\* supabase_upsert, supabase_upsert_batch, supabase_search, supabase_count_documents
ToolStatus(r) == IF r.exc = "" THEN "success" ELSE "error"

\* supabase_delete
ToolDeleteStatus(r) ==
    IF r.exc # "" THEN "error" ELSE IF r.val THEN "success" ELSE "warning"

\* supabase_get_document
ToolGetStatus(r) ==
    IF r.exc # "" THEN "error" ELSE IF r.val # None THEN "success" ELSE "not_found"

(***************************************************************************)
(* Inputs                                                                  *)
(***************************************************************************)
IdA == <<"a">>
IdB == <<"b">>
IdC == <<"c">>
TextAbCd == <<"A", "b", " ", "c", "d">>
TextZz == <<"z", "z", ".">>
TextProjectX == <<"P", "r", "o", "j", "e", "c", "t", " ", "x">>
TextSpace == <<" ">>
TextEmpty == <<>>

\* {"k": [1, "v"]},  {},  and a metadata that is not a dict: the str 'zz'
MetaK == PyDict(<< <<<<"k">>, PyList(<<PyInt(1), PyStr(<<"v">>)>>)>> >>)
MetaEmpty == PyDict(<<>>)
MetaStr == PyStr(<<"z", "z">>)

Ids == {IdA, IdB}
Contents == {TextAbCd, TextZz, TextSpace, TextEmpty}
Metadatas == {MetaK, MetaEmpty, MetaStr}
DbOutcomes == {"ok", "raise", "error"}
EmbFails == 0..MAX_RETRIES

NoFail == [emb |-> 0, db |-> "ok"]

\* the documents a batch is drawn from, and the batches: up to MaxBatchLen
\* documents with distinct ids
BatchDocs ==
    [doc_id : Ids \cup {IdC}, content : {TextAbCd, TextSpace, TextEmpty}, metadata : {MetaK}]

DistinctIds(docs) ==
    \A i, j \in 1..Len(docs) : i # j => docs[i].doc_id # docs[j].doc_id

Batches ==
    {docs \in UNION {[1..n -> BatchDocs] : n \in 0..MaxBatchLen} : DistinctIds(docs)}

NumChunks(docs) == Len(Chunks(docs, BATCH_SIZE))

(***************************************************************************)
(* The store as a state machine.  rows is the documents table, cache the   *)
(* embedding cache, last the record of the call under observation: the     *)
(* store is first brought to some state by calls that are not recorded     *)
(* (watch = FALSE), then one call is made and recorded with its inputs,    *)
(* the table before it and its outcome.  embeds is the history of the      *)
(* direct calls of _embed_single that returned: <<text, vector>> pairs in  *)
(* call order.                                                             *)
(***************************************************************************)
Idle == [op |-> "none"]

Init ==
    /\ rows = <<>> /\ cache = <<>> /\ last = Idle /\ embeds = <<>>
    /\ session_records = <<>> /\ uuids = 0

\* supabase_upsert(doc_id, content, metadata); r is the outcome of the store method
UpsertApply(r, doc_id, content, metadata, f, watch) ==
    /\ UNCHANGED <<session_records, uuids>>
    /\ ~watch => r.exc = ""
    /\ r.attempts = 0 => f.emb = 0
    /\ r.writes = 0 => f.db = "ok"
    /\ rows' = r.rows
    /\ cache' = r.cache
    /\ UNCHANGED embeds
    /\ last' = IF watch
               THEN [op |-> "upsert", doc_id |-> doc_id, content |-> content,
                     metadata |-> metadata, f |-> f, before |-> rows,
                     cache_before |-> cache, exc |-> r.exc, val |-> r.val, status |-> ToolStatus(r),
                     attempts |-> r.attempts, writes |-> r.writes]
               ELSE last

UpsertStep(doc_id, content, metadata, f, watch) ==
    /\ ~watch => f = NoFail
    /\ UpsertApply(Upsert(rows, cache, doc_id, content, metadata, f),
                   doc_id, content, metadata, f, watch)

\* supabase_upsert_batch(documents)
UpsertBatchApply(r, documents, f) ==
    /\ UNCHANGED <<session_records, uuids>>
    /\ r.embed_calls = 0 => f.emb = [k \in 1..NumChunks(documents) |-> 0]
    /\ r.writes = 0 => f.db = [k \in 1..NumChunks(documents) |-> "ok"]
    /\ rows' = r.rows
    /\ cache' = cache
    /\ UNCHANGED embeds
    /\ last' = [op |-> "upsert_batch", documents |-> documents, f |-> f,
                before |-> rows, exc |-> r.exc, val |-> r.val,
                status |-> ToolStatus(r),
                count |-> IF r.exc = "" THEN Len(r.val) ELSE 0,
                embed_calls |-> r.embed_calls, writes |-> r.writes,
                chunk |-> r.chunk, log |-> r.log, response |-> ToolBatchResponse(r)]

UpsertBatchStep(documents, f) ==
    /\ UpsertBatchApply(UpsertBatch(rows, documents, f), documents, f)

\* supabase_delete(doc_id)
DeleteApply(r, doc_id, db, watch) ==
    /\ UNCHANGED <<session_records, uuids>>
    /\ rows' = r.rows
    /\ cache' = cache
    /\ UNCHANGED embeds
    /\ last' = IF watch
               THEN [op |-> "delete", doc_id |-> doc_id, db |-> db, before |-> rows,
                     exc |-> r.exc, val |-> r.val, status |-> ToolDeleteStatus(r)]
               ELSE last

DeleteStep(doc_id, db, watch) ==
    /\ ~watch => db = "ok"
    /\ DeleteApply(Delete(rows, doc_id, db), doc_id, db, watch)

\* supabase_get_document(doc_id)
GetApply(r, doc_id, db) ==
    /\ UNCHANGED <<session_records, uuids>>
    /\ UNCHANGED <<rows, cache, embeds>>
    /\ last' = [op |-> "get", doc_id |-> doc_id, db |-> db, before |-> rows,
                exc |-> r.exc, val |-> r.val, status |-> ToolGetStatus(r)]

GetStep(doc_id, db) ==
    /\ GetApply(GetDocument(rows, doc_id, db), doc_id, db)

\* supabase_count_documents()
CountApply(r, db) ==
    /\ UNCHANGED <<session_records, uuids>>
    /\ UNCHANGED <<rows, cache, embeds>>
    /\ last' = [op |-> "count", db |-> db, before |-> rows,
                exc |-> r.exc, val |-> r.val, status |-> ToolStatus(r)]

CountStep(db) ==
    /\ CountApply(CountDocuments(rows, db), db)

\* the calls a client can make while no call has been recorded yet
UpsertCall ==
    /\ last = Idle
    /\ \E id \in Ids \cup {<<>>}, content \in Contents, metadata \in Metadatas,
          emb \in EmbFails, db \in DbOutcomes \cup {"nodata"}, watch \in BOOLEAN :
          UpsertStep(id, content, metadata, [emb |-> emb, db |-> db], watch)

UpsertBatchCall ==
    /\ last = Idle
    /\ \E documents \in Batches, emb \in {0, MAX_RETRIES}, db \in DbOutcomes :
          UpsertBatchStep(documents,
                          [emb |-> [k \in 1..NumChunks(documents) |-> emb],
                           db |-> [k \in 1..NumChunks(documents) |-> db]])

DeleteCall ==
    /\ last = Idle
    /\ \E id \in Ids \cup {IdC}, db \in DbOutcomes, watch \in BOOLEAN :
          DeleteStep(id, db, watch)

GetCall ==
    /\ last = Idle
    /\ \E id \in Ids \cup {IdC}, db \in DbOutcomes : GetStep(id, db)

CountCall ==
    /\ last = Idle
    /\ \E db \in DbOutcomes : CountStep(db)

Next == UpsertCall \/ UpsertBatchCall \/ DeleteCall \/ GetCall \/ CountCall

Spec == Init /\ [][Next]_vars

(***************************************************************************)
(* Search as a state machine: the table is filled by unrecorded batch      *)
(* upserts of the documents below, the cache may be warmed by an           *)
(* unrecorded search, and one search is made and recorded.                 *)
(***************************************************************************)
DocA == [doc_id |-> IdA, content |-> TextAbCd, metadata |-> MetaK]
DocB == [doc_id |-> IdB, content |-> TextProjectX, metadata |-> MetaEmpty]
DocC == [doc_id |-> IdC, content |-> TextZz, metadata |-> MetaStr]
SearchDocs == {DocA, DocB, DocC}

QueryAbCd == <<"a", "b", " ", "c", "d">>
QueryZzCd == <<"z", "z", " ", "c", "d", "?">>
QueryCdZz == <<"C", "d", " ", "z", "z">>
QueryProject == <<"p", "r", "o", "j", "e", "c", "t">>
QueryLong ==
    <<"a", " ", "b", " ", "c", " ", "d", " ", "p", "r", "o", "j", "e", "c", "t", " ", "x">>
QueryMark == <<"?">>
QueryNoMatch == <<"r", "r">>
QueryProjects == <<"p", "r", "o", "j", "e", "c", "t", "s", " ", "q">>
Queries ==
    {QueryAbCd, QueryZzCd, QueryCdZz, QueryProject, QueryLong, QueryMark, QueryNoMatch,
     QueryProjects, TextSpace, TextEmpty}

TopKs == 0..MaxTopK
MaxFallbackQueries == LAST_SUFFIX_INDEX + 3

SearchFails ==
    [emb : EmbFails, sim : DbOutcomes \cup {"empty"}, fb : 0..MaxFallbackQueries, lastresort : {"ok", "raise"}]

NoSearchFail == [emb |-> 0, sim |-> "ok", fb |-> 0, lastresort |-> "ok"]

CountCalls(log, kinds) == Cardinality({i \in 1..Len(log) : log[i].call \in kinds})

HandlerRan(r) == r.fallback # <<>> /\ r.fallback[1].handler

\* the queries issued inside the try block of search_fallback
TriedQueries(r) == CountCalls(r.log, {"ilike", "select"}) - (IF HandlerRan(r) THEN 1 ELSE 0)

\* a failure is an input only for a call that is issued
FailsUsed(r, f) ==
    /\ CountCalls(r.log, {"embed"}) = 0 => f.emb = 0
    /\ CountCalls(r.log, {"rpc"}) = 0 => f.sim = "ok"
    /\ f.fb <= TriedQueries(r)
    /\ ~HandlerRan(r) => f.lastresort = "ok"

SeedApply(r) == rows' = r.rows /\ UNCHANGED <<cache, last, embeds, session_records, uuids>>

SeedStep(doc) ==
    /\ ~HasId(rows, doc.doc_id)
    /\ SeedApply(UpsertBatch(rows, <<doc>>, [emb |-> <<0>>, db |-> <<"ok">>]))

\* SearchApply with a search that empties the table
SearchApplyClearsRows(r, query, top_k, f, watch) ==
    /\ UNCHANGED <<session_records, uuids>>
    /\ FailsUsed(r, f)
    /\ rows' = <<>>
    /\ cache' = r.cache
    /\ UNCHANGED embeds
    /\ last' = IF watch
               THEN [op |-> "search", query |-> query, top_k |-> top_k, f |-> f,
                     before |-> rows, cache_before |-> cache,
                     exc |-> r.exc, val |-> r.val, status |-> ToolStatus(r),
                     log |-> r.log, fallback |-> r.fallback]
               ELSE last

\* supabase_search(query, top_k); r is the outcome of the store method
SearchApply(r, query, top_k, f, watch) ==
    /\ UNCHANGED <<session_records, uuids>>
    /\ FailsUsed(r, f)
    /\ rows' = rows
    /\ cache' = r.cache
    /\ UNCHANGED embeds
    /\ last' = IF watch
               THEN [op |-> "search", query |-> query, top_k |-> top_k, f |-> f,
                     before |-> rows, cache_before |-> cache,
                     exc |-> r.exc, val |-> r.val, status |-> ToolStatus(r),
                     log |-> r.log, fallback |-> r.fallback]
               ELSE last

SearchStep(query, top_k, f, watch) ==
    /\ ~watch => (f = NoSearchFail /\ query = QueryAbCd /\ cache = <<>>)
    /\ SearchApply(Search(rows, cache, query, top_k, f), query, top_k, f, watch)

SeedCall ==
    /\ last = Idle
    /\ \E doc \in SearchDocs : SeedStep(doc)

SearchCall ==
    /\ last = Idle
    /\ \E query \in Queries, top_k \in TopKs, f \in SearchFails, watch \in BOOLEAN :
          SearchStep(query, top_k, f, watch)

\* score thresholds as fractions num / den
Thresholds == {[num |-> 0, den |-> 1], [num |-> 1, den |-> 2], [num |-> 1, den |-> 1]}

\* search(query, top_k, score_threshold=threshold)
SearchThresholdApply(r, query, top_k, threshold, f) ==
    /\ UNCHANGED <<session_records, uuids>>
    /\ FailsUsed(r, f)
    /\ rows' = rows
    /\ cache' = r.cache
    /\ UNCHANGED embeds
    /\ last' = [op |-> "search_threshold", query |-> query, top_k |-> top_k,
                threshold |-> threshold, f |-> f, before |-> rows,
                exc |-> r.exc, val |-> r.val, log |-> r.log, fallback |-> r.fallback]

SearchThresholdStep(query, top_k, threshold, f) ==
    /\ SearchThresholdApply(SearchThreshold(rows, cache, query, top_k, threshold, f),
                            query, top_k, threshold, f)

SearchThresholdCall ==
    /\ last = Idle
    /\ \E query \in {QueryAbCd, QueryNoMatch}, top_k \in TopKs, threshold \in Thresholds,
          f \in {NoSearchFail, [NoSearchFail EXCEPT !.sim = "raise"]} :
          SearchThresholdStep(query, top_k, threshold, f)

\* upsert(doc_id, content, metadata) recorded, to be followed by a search
PutCall ==
    /\ last = Idle
    /\ \E id \in Ids, content \in {TextAbCd, TextZz}, db \in {"ok", "error"} :
          UpsertStep(id, content, MetaK, [emb |-> 0, db |-> db], TRUE)

\* search(content, top_k) made right after the recorded upsert returned
SearchAfterApply(r, top_k) ==
    /\ UNCHANGED <<session_records, uuids>>
    /\ rows' = rows
    /\ cache' = r.cache
    /\ UNCHANGED embeds
    /\ last' = [op |-> "search_after", doc_id |-> last.doc_id, content |-> last.content,
                metadata |-> last.metadata, top_k |-> top_k, before |-> rows,
                exc |-> r.exc, val |-> r.val, status |-> ToolStatus(r),
                log |-> r.log, fallback |-> r.fallback]

SearchAfterStep(top_k) ==
    /\ SearchAfterApply(Search(rows, cache, last.content, top_k, NoSearchFail), top_k)

SearchAfterCall ==
    /\ last # Idle
    /\ last.op = "upsert"
    /\ last.exc = ""
    /\ \E top_k \in 1..MaxTopK : SearchAfterStep(top_k)

NextSearch ==
    \/ SeedCall \/ SearchCall \/ SearchThresholdCall \/ PutCall \/ SearchAfterCall
    \/ GetCall \/ CountCall

SpecSearch == Init /\ [][NextSearch]_vars

(***************************************************************************)
(* The embedder as a state machine: _embed_single is called directly with  *)
(* fresh texts one after the other, the first text may be used once more   *)
(* in between, and one call of _embed_single or _embed_batch is recorded;  *)
(* a recorded call of _embed_single that failed may be made once more.     *)
(***************************************************************************)
\* the i-th text: i \div 11 times "a", then i % 11 times "c" (the service
\* returns a different vector for each)
EText(i) == [k \in 1..(i \div 11) |-> "a"] \o [k \in 1..(i % 11) |-> "c"]

\* texts are taken from EText(1) .. EText(NumTexts)
NumTexts == CACHE_MAXSIZE + MaxExtraTexts

EmbeddedTexts(h) == {h[i][1] : i \in 1..Len(h)}

\* the text no call has used yet
NextText == EText(Cardinality(EmbeddedTexts(embeds)) + 1)

TimesEmbedded(h, text) == Cardinality({i \in 1..Len(h) : h[i][1] = text})

ManyTexts ==
    {<<>>, <<TextSpace>>, <<TextEmpty, TextSpace>>, <<TextAbCd>>,
     <<TextSpace, TextZz>>, <<TextAbCd, TextEmpty, TextZz>>}

\* _embed_single(text) called directly; r is its outcome
EmbedOneApply(r, text, nfail, watch) ==
    /\ UNCHANGED <<session_records, uuids>>
    /\ r.attempts = 0 => nfail = 0
    /\ cache' = r.cache
    /\ embeds' = IF r.exc = "" THEN Append(embeds, <<text, r.val>>) ELSE embeds
    /\ rows' = rows
    /\ last' = IF watch
               THEN [op |-> "embed_one", text |-> text, nfail |-> nfail,
                     cache_before |-> cache, embeds_before |-> embeds,
                     exc |-> r.exc, val |-> r.val,
                     attempts |-> r.attempts, sleeps |-> r.sleeps]
               ELSE last

EmbedOneStep(text, nfail, watch) ==
    /\ ~watch => /\ nfail = 0
                 /\ \/ IsBlank(text)
                    \/ text = NextText /\ Cardinality(EmbeddedTexts(embeds)) < NumTexts
                    \/ text = EText(1) /\ TimesEmbedded(embeds, text) = 1
    /\ EmbedOneApply(EmbedSingle(cache, text, nfail), text, nfail, watch)

\* _embed_batch(texts) called directly: it reads and changes no state
EmbedManyApply(r, texts, nfail) ==
    /\ UNCHANGED <<session_records, uuids>>
    /\ r.attempts = 0 => nfail = 0
    /\ UNCHANGED <<rows, cache, embeds>>
    /\ last' = [op |-> "embed_many", texts |-> texts, nfail |-> nfail,
                exc |-> r.exc, val |-> r.val,
                attempts |-> r.attempts, sleeps |-> r.sleeps]

EmbedManyStep(texts, nfail) ==
    /\ EmbedManyApply(EmbedBatch(texts, nfail), texts, nfail)

\* _embed_single(text) called again after the recorded call of it has failed
EmbedAgainApply(r, nfail) ==
    /\ UNCHANGED <<session_records, uuids>>
    /\ r.attempts = 0 => nfail = 0
    /\ cache' = r.cache
    /\ embeds' = IF r.exc = "" THEN Append(embeds, <<last.text, r.val>>) ELSE embeds
    /\ rows' = rows
    /\ last' = [op |-> "embed_again", text |-> last.text, nfail |-> nfail,
                first_exc |-> last.exc, cache_before |-> cache,
                exc |-> r.exc, val |-> r.val,
                attempts |-> r.attempts, sleeps |-> r.sleeps]

EmbedAgainStep(nfail) ==
    /\ EmbedAgainApply(EmbedSingle(cache, last.text, nfail), nfail)

EmbedAgainCall ==
    /\ last # Idle
    /\ last.op = "embed_one"
    /\ last.exc # ""
    /\ \E nfail \in EmbFails : EmbedAgainStep(nfail)

EmbedOneCall ==
    /\ last = Idle
    /\ \E text \in {EText(1), EText(2), NextText, TextSpace, TextEmpty},
          nfail \in EmbFails, watch \in BOOLEAN :
          EmbedOneStep(text, nfail, watch)

EmbedManyCall ==
    /\ last = Idle
    /\ Len(embeds) <= MaxExtraTexts
    /\ \E texts \in ManyTexts, nfail \in EmbFails : EmbedManyStep(texts, nfail)

NextEmbed == EmbedOneCall \/ EmbedManyCall \/ EmbedAgainCall

SpecEmbed == Init /\ [][NextEmbed]_vars

(***************************************************************************)
(* Batches of more than BATCH_SIZE documents: the table is prefilled by    *)
(* unrecorded upserts, then one upsert_batch of one, two or three chunks   *)
(* is recorded, in which at most one remote call fails.                    *)
(***************************************************************************)
LongId(i) == <<"d">> \o NatToText(i)

\* n documents with distinct ids; the one at position hole has empty content
LongBatch(n, hole) ==
    [i \in 1..n |-> [doc_id |-> LongId(i),
                     content |-> IF i = hole THEN TextEmpty ELSE TextAbCd,
                     metadata |-> MetaEmpty]]

LongBatches ==
    {LongBatch(m * BATCH_SIZE + e, hole) :
        m \in 1..2, e \in 0..MaxExtraDocs, hole \in {0, 1, BATCH_SIZE + 1}}

\* the failures of a batch of n chunks: none, or in chunk k the embedding call
\* (kind "emb") or the write (kind "raise", "error")
BatchFail(n, k, kind) ==
    [emb |-> [j \in 1..n |-> IF j = k /\ kind = "emb" THEN MAX_RETRIES ELSE 0],
     db |-> [j \in 1..n |-> IF j = k /\ kind \in {"raise", "error"} THEN kind ELSE "ok"]]

LongBatchApply(r, documents, f, k) ==
    /\ r.chunk = k
    /\ UpsertBatchApply(r, documents, f)

LongBatchStep(documents, k, kind) ==
    /\ LongBatchApply(UpsertBatch(rows, documents, BatchFail(NumChunks(documents), k, kind)),
                      documents, BatchFail(NumChunks(documents), k, kind), k)

PrefillCall ==
    /\ last = Idle
    /\ \E id \in {IdA, LongId(1)}, content \in {TextAbCd, TextZz} :
          UpsertStep(id, content, MetaK, NoFail, FALSE)

LongBatchCall ==
    /\ last = Idle
    /\ \E documents \in LongBatches, k \in 0..(2 + MaxExtraDocs),
          kind \in {"none", "emb", "raise", "error"} :
          /\ k <= NumChunks(documents)
          /\ (k = 0) <=> (kind = "none")
          /\ LongBatchStep(documents, k, kind)

NextBatch == PrefillCall \/ LongBatchCall

SpecBatch == Init /\ [][NextBatch]_vars

(***************************************************************************)
(* Deleting and repeating: the table is filled and emptied by unrecorded   *)
(* upsert, upsert_batch, delete and delete_batch calls; then one upsert,   *)
(* delete or delete_batch is recorded, and a recorded upsert or delete may *)
(* be made once more with the same arguments; or one get_document or       *)
(* count_documents is recorded.  One of the ids holds a quote character.   *)
(***************************************************************************)
IdQuote == <<"o", "'", "k">>

DelIds == {IdA, IdB, IdQuote}

MaxDeleteLen == 2

\* the id lists of delete_batch: up to MaxDeleteLen ids, stored or not,
\* repeated or not
IdLists == UNION {[1..n -> DelIds \cup {IdC}] : n \in 0..MaxDeleteLen}

\* the batches of the unrecorded upsert_batch: two documents, with two ids
\* or with one id twice
DelBatches ==
    {<<[doc_id |-> p[1], content |-> TextAbCd, metadata |-> MetaK],
       [doc_id |-> p[2], content |-> TextZz, metadata |-> MetaK]>> :
        p \in DelIds \X DelIds}

\* delete_batch(doc_ids); r is the outcome of the store method
DeleteBatchApply(r, doc_ids, db, watch) ==
    /\ UNCHANGED <<session_records, uuids>>
    /\ r.calls = 0 => db = "ok"
    /\ rows' = r.rows
    /\ UNCHANGED <<cache, embeds>>
    /\ last' = IF watch
               THEN [op |-> "delete_batch", doc_ids |-> doc_ids, db |-> db,
                     before |-> rows, exc |-> r.exc, val |-> r.val, calls |-> r.calls]
               ELSE last

DeleteBatchStep(doc_ids, db, watch) ==
    /\ ~watch => db = "ok"
    /\ DeleteBatchApply(DeleteBatch(rows, doc_ids, db), doc_ids, db, watch)

\* the recorded upsert made once more: once is the table the first call left
UpsertAgainApply(r) ==
    /\ UNCHANGED <<session_records, uuids>>
    /\ rows' = r.rows
    /\ cache' = r.cache
    /\ UNCHANGED embeds
    /\ last' = [op |-> "upsert_twice", doc_id |-> last.doc_id, content |-> last.content,
                metadata |-> last.metadata, before |-> last.before, once |-> rows,
                first |-> last.val, exc |-> r.exc, val |-> r.val,
                attempts |-> r.attempts, writes |-> r.writes]

UpsertAgainStep ==
    /\ UpsertAgainApply(Upsert(rows, cache, last.doc_id, last.content, last.metadata, NoFail))

\* the recorded delete made once more
DeleteAgainApply(r) ==
    /\ UNCHANGED <<session_records, uuids>>
    /\ rows' = r.rows
    /\ UNCHANGED <<cache, embeds>>
    /\ last' = [op |-> "delete_twice", doc_id |-> last.doc_id, before |-> last.before,
                once |-> rows, first |-> last.val, exc |-> r.exc, val |-> r.val,
                status |-> ToolDeleteStatus(r)]

DeleteAgainStep ==
    /\ DeleteAgainApply(Delete(rows, last.doc_id, "ok"))

FillCall ==
    /\ last = Idle
    /\ \E id \in DelIds, content \in {TextAbCd, TextZz}, metadata \in {MetaK, MetaStr},
          watch \in BOOLEAN :
          UpsertStep(id, content, metadata, NoFail, watch)

FillBatchCall ==
    /\ last = Idle
    /\ \E documents \in DelBatches :
          SeedApply(UpsertBatch(rows, documents, [emb |-> <<0>>, db |-> <<"ok">>]))

DropCall ==
    /\ last = Idle
    /\ \E id \in DelIds \cup {IdC}, watch \in BOOLEAN : DeleteStep(id, "ok", watch)

DeleteBatchCall ==
    /\ last = Idle
    /\ \E doc_ids \in IdLists, db \in DbOutcomes, watch \in BOOLEAN :
          DeleteBatchStep(doc_ids, db, watch)

UpsertAgainCall ==
    /\ last # Idle
    /\ last.op = "upsert"
    /\ UpsertAgainStep

DeleteAgainCall ==
    /\ last # Idle
    /\ last.op = "delete"
    /\ DeleteAgainStep

NextDelete ==
    \/ FillCall \/ FillBatchCall \/ DropCall \/ DeleteBatchCall
    \/ UpsertAgainCall \/ DeleteAgainCall \/ GetCall \/ CountCall

SpecDelete == Init /\ [][NextDelete]_vars

(***************************************************************************)
(* Two concurrent upserts of one id: each call embeds its content, then    *)
(* writes its row; the steps of the two calls interleave in every order.   *)
(* _embed_single is the lru_cache wrapper around a remote request, so the  *)
(* embedding of a call is three steps: the lookup in the cache, the        *)
(* request to the service (no lock held), and the store of its result.     *)
(* last holds the two calls in flight: for each its arguments, its place   *)
(* (pc: "embed", "request", "store", "write" or "done"), the embedding it  *)
(* holds and its outcome; order lists the calls in the order their writes  *)
(* were applied.                                                           *)
(***************************************************************************)
\* upsert up to the lookup of _embed_single(content): validation passed; a
\* hit gives the embedding and makes the entry the most recently used one
UpsertLookupPart(c, call) ==
    IF CacheHas(c, call.content)
    THEN [call |-> [call EXCEPT !.pc = "write", !.embedding = CacheGet(c, call.content)],
          cache |-> CacheTouch(c, call.content)]
    ELSE [call |-> [call EXCEPT !.pc = "request"], cache |-> c]

\* the request to the embedding service, answered at the first attempt
UpsertRequestPart(call) ==
    [call EXCEPT !.pc = "store", !.embedding = EmbedSingleBody(call.content, 0).val]

\* the wrapper after the request has returned: the result is stored unless
\* the same content was stored during the request
UpsertStorePart(c, call) ==
    [call |-> [call EXCEPT !.pc = "write"],
     cache |-> IF CacheHas(c, call.content) THEN c
               ELSE CachePut(c, call.content, call.embedding)]

\* upsert from the row on: the row is built from the call's own arguments
\* and embedding and written in one backend call; the call returns the row,
\* or raises what the backend raised
UpsertWritePart(rs, call) ==
    LET row == MakeRow(call.doc_id, call.content, call.embedding, call.metadata)
    IN  IF DbUpsert(rs, <<row>>).exc # ""
        THEN [call |-> [call EXCEPT !.pc = "done", !.exc = DbUpsert(rs, <<row>>).exc],
              rows |-> rs, applied |-> FALSE]
        ELSE [call |-> [call EXCEPT !.pc = "done", !.val = row],
              rows |-> DbUpsert(rs, <<row>>).rows, applied |-> TRUE]

NewCall(doc_id, content, metadata) ==
    [doc_id |-> doc_id, content |-> content, metadata |-> metadata, pc |-> "embed",
     embedding |-> <<>>, exc |-> "", val |-> None]

PairStartStep(doc_id, c1, m1, c2, m2) ==
    /\ UNCHANGED <<session_records, uuids>>
    /\ c1 # c2
    /\ m1 # m2
    /\ last' = [op |-> "upsert_pair", before |-> rows, order |-> <<>>,
                calls |-> <<NewCall(doc_id, c1, m1), NewCall(doc_id, c2, m2)>>]
    /\ UNCHANGED <<rows, cache, embeds>>

\* a step of call p that touches the cache: its lookup or its store
PairCacheApply(r, p) ==
    /\ UNCHANGED <<session_records, uuids>>
    /\ last' = [last EXCEPT !.calls[p] = r.call]
    /\ cache' = r.cache
    /\ UNCHANGED <<rows, embeds>>

PairLookupStep(p) ==
    /\ last.calls[p].pc = "embed"
    /\ PairCacheApply(UpsertLookupPart(cache, last.calls[p]), p)

PairRequestApply(c, p) ==
    /\ last' = [last EXCEPT !.calls[p] = c]
    /\ UNCHANGED <<rows, cache, embeds, session_records, uuids>>

PairRequestStep(p) ==
    /\ last.calls[p].pc = "request"
    /\ PairRequestApply(UpsertRequestPart(last.calls[p]), p)

PairStoreStep(p) ==
    /\ last.calls[p].pc = "store"
    /\ PairCacheApply(UpsertStorePart(cache, last.calls[p]), p)

PairWriteApply(r, p) ==
    /\ UNCHANGED <<session_records, uuids>>
    /\ last' = [last EXCEPT !.calls[p] = r.call,
                             !.order = IF r.applied THEN Append(last.order, p)
                                       ELSE last.order]
    /\ rows' = r.rows
    /\ UNCHANGED <<cache, embeds>>

PairWriteStep(p) ==
    /\ last.calls[p].pc = "write"
    /\ PairWriteApply(UpsertWritePart(rows, last.calls[p]), p)

PairFillCall ==
    /\ last = Idle
    /\ \E id \in Ids, content \in {TextAbCd, TextZz, TextProjectX} :
          UpsertStep(id, content, MetaStr, NoFail, FALSE)

PairStartCall ==
    /\ last = Idle
    /\ \E id \in Ids, c1, c2 \in {TextAbCd, TextZz}, m1, m2 \in {MetaK, MetaEmpty} :
          PairStartStep(id, c1, m1, c2, m2)

PairLookupCall ==
    /\ last # Idle
    /\ \E p \in 1..2 : PairLookupStep(p)

PairRequestCall ==
    /\ last # Idle
    /\ \E p \in 1..2 : PairRequestStep(p)

PairStoreCall ==
    /\ last # Idle
    /\ \E p \in 1..2 : PairStoreStep(p)

PairWriteCall ==
    /\ last # Idle
    /\ \E p \in 1..2 : PairWriteStep(p)

NextConcurrent ==
    \/ PairFillCall \/ PairStartCall \/ PairLookupCall \/ PairRequestCall
    \/ PairStoreCall \/ PairWriteCall

SpecConcurrent == Init /\ [][NextConcurrent]_vars

(***************************************************************************)
(* Concurrent calls of _embed_single: two threads call the function while  *)
(* the cache holds 0..100 entries.  functools.lru_cache looks the key up   *)
(* and, on a hit, moves the entry in one step; on a miss it calls the      *)
(* function with no lock held and, once the call has returned, stores the  *)
(* result in a second step unless the key has been stored meanwhile.  The  *)
(* function makes up to MAX_RETRIES requests and sleeps between two of     *)
(* them; each request is a step of its own, so the steps of the other      *)
(* thread fall between the attempts too.  The two calls in flight are held *)
(* in last.calls, each with its position pc and the attempts it has made.  *)
(***************************************************************************)
NewEmbed(text) ==
    [text |-> text, pc |-> "lookup", exc |-> "", val |-> <<>>, attempts |-> 0]

\* the lookup of the wrapper: a hit returns the entry and makes it the most
\* recently used one, a miss goes on to the call of the function
SharedLookupPart(c, call) ==
    IF CacheHas(c, call.text)
    THEN [call |-> [call EXCEPT !.pc = "done", !.val = CacheGet(c, call.text)],
          cache |-> CacheTouch(c, call.text)]
    ELSE [call |-> [call EXCEPT !.pc = "call"], cache |-> c]

\* the function itself, run outside the cache, up to its next wait: a blank
\* text is refused before any request; otherwise one request is made, and
\* the thread returns the vector (ok), raises when this was the last
\* attempt, or sleeps and stays in the loop
SharedCallPart(call, ok) ==
    IF IsBlank(call.text)
    THEN [call EXCEPT !.pc = "done", !.exc = "ValueError"]
    ELSE IF ok
    THEN [call EXCEPT !.pc = "store", !.val = ServiceEmbedding(call.text),
                      !.attempts = call.attempts + 1]
    ELSE IF call.attempts + 1 >= MAX_RETRIES
    THEN [call EXCEPT !.pc = "done", !.exc = "EmbeddingError",
                      !.attempts = call.attempts + 1]
    ELSE [call EXCEPT !.attempts = call.attempts + 1]

\* SharedStorePart adding the entry without making room for it
SharedStorePartKeepsAll(c, call) ==
    [call |-> [call EXCEPT !.pc = "done"],
     cache |-> IF CacheHas(c, call.text) THEN c ELSE Append(c, <<call.text, call.val>>)]

\* the wrapper after the function has returned: the result is stored unless
\* the same key was added during the call
SharedStorePart(c, call) ==
    [call |-> [call EXCEPT !.pc = "done"],
     cache |-> IF CacheHas(c, call.text) THEN c ELSE CachePut(c, call.text, call.val)]

\* one more text is embedded before the two threads start
WarmCall ==
    /\ last = Idle
    /\ Cardinality(EmbeddedTexts(embeds)) < CACHE_MAXSIZE
    /\ EmbedOneStep(NextText, 0, FALSE)

SharedStartStep(t1, t2) ==
    /\ UNCHANGED <<session_records, uuids>>
    /\ last' = [op |-> "embed_pair", cache_before |-> cache,
                calls |-> <<NewEmbed(t1), NewEmbed(t2)>>]
    /\ UNCHANGED <<rows, cache, embeds>>

SharedLookupApply(r, p) ==
    /\ UNCHANGED <<session_records, uuids>>
    /\ last' = [last EXCEPT !.calls[p] = r.call]
    /\ cache' = r.cache
    /\ UNCHANGED <<rows, embeds>>

SharedLookupStep(p) ==
    /\ last.calls[p].pc = "lookup"
    /\ SharedLookupApply(SharedLookupPart(cache, last.calls[p]), p)

\* ok is an input only when a request is made
SharedCallApply(c, p, ok) ==
    /\ UNCHANGED <<session_records, uuids>>
    /\ c.attempts = 0 => ok
    /\ last' = [last EXCEPT !.calls[p] = c]
    /\ embeds' = IF c.pc = "store" THEN Append(embeds, <<c.text, c.val>>) ELSE embeds
    /\ UNCHANGED <<rows, cache>>

SharedCallStep(p, ok) ==
    /\ last.calls[p].pc = "call"
    /\ SharedCallApply(SharedCallPart(last.calls[p], ok), p, ok)

SharedStoreApply(r, p) ==
    /\ UNCHANGED <<session_records, uuids>>
    /\ last' = [last EXCEPT !.calls[p] = r.call]
    /\ cache' = r.cache
    /\ UNCHANGED <<rows, embeds>>

SharedStoreStep(p) ==
    /\ last.calls[p].pc = "store"
    /\ SharedStoreApply(SharedStorePart(cache, last.calls[p]), p)

\* the texts the two threads ask for: one embedded before (if any), two new
\* ones, and a blank one
SharedTexts == {EText(1), EText(NumTexts - 1), EText(NumTexts), TextSpace}

SharedStartCall ==
    /\ last = Idle
    /\ \E t1, t2 \in SharedTexts : SharedStartStep(t1, t2)

SharedLookupCall ==
    /\ last # Idle
    /\ \E p \in 1..2 : SharedLookupStep(p)

SharedCallCall ==
    /\ last # Idle
    /\ \E p \in 1..2, ok \in BOOLEAN : SharedCallStep(p, ok)

SharedStoreCall ==
    /\ last # Idle
    /\ \E p \in 1..2 : SharedStoreStep(p)

NextShared == WarmCall \/ SharedStartCall \/ SharedLookupCall \/ SharedCallCall \/ SharedStoreCall

SpecShared == Init /\ [][NextShared]_vars

(***************************************************************************)
(* SupabaseMemoryService (memory_service.py): the records of each session  *)
(* are kept in the dict _session_records, keyed by "app:user:session";     *)
(* records flagged store_in_vector_db are also upserted into the vector    *)
(* store.  session_records is the dict as a sequence of <<key, list>>      *)
(* pairs in insertion order; a record is                                   *)
(*   [id, app_id, user_id, session_id, text, timestamp, metadata].         *)
(***************************************************************************)
\* bool(x) of a Python value
Truthy(x) ==
    CASE x.t = "none" -> FALSE
      [] x.t = "bool" -> x.v
      [] x.t = "int" -> x.v # 0
      [] OTHER -> x.v # <<>>

\* kvs.get(k, default) on the pairs of a dict
DictGet(kvs, k, default) ==
    IF \E n \in 1..Len(kvs) : kvs[n][1] = k
    THEN kvs[CHOOSE n \in 1..Len(kvs) : kvs[n][1] = k][2]
    ELSE default

\* {**kvs, **more}
RECURSIVE DictUpdate(_, _)
DictUpdate(kvs, more) ==
    IF more = <<>> THEN kvs
    ELSE DictUpdate(PutKey(kvs, Head(more)[1], Head(more)[2]), Tail(more))

KeyAppId == <<"a", "p", "p", "_", "i", "d">>
KeyUserId == <<"u", "s", "e", "r", "_", "i", "d">>
KeySessionId == <<"s", "e", "s", "s", "i", "o", "n", "_", "i", "d">>
KeyTimestamp == <<"t", "i", "m", "e", "s", "t", "a", "m", "p">>
KeyType == <<"t", "y", "p", "e">>
KeyStore ==
    <<"s", "t", "o", "r", "e", "_", "i", "n", "_", "v", "e", "c", "t", "o", "r", "_", "d", "b">>
KeyRaw == <<"r", "a", "w", "_", "m", "e", "t", "a", "d", "a", "t", "a">>
TypeMemory == <<"m", "e", "m", "o", "r", "y">>
SEARCH_LIMIT_DEFAULT == 5

\* f"{app_id}:{user_id}:{session_id}"
SessionKey(app_id, user_id, session_id) ==
    app_id \o <<":">> \o user_id \o <<":">> \o session_id

SessionHas(d, key) == \E n \in 1..Len(d) : d[n][1] = key

\* self._session_records.get(key, [])
SessionGet(d, key) == DictGet(d, key, <<>>)

\* the metadata create passes to the vector store
VectorMetadata(rec) ==
    PyDict(DictUpdate(
        << <<KeyAppId, PyStr(rec.app_id)>>, <<KeyUserId, PyStr(rec.user_id)>>,
           <<KeySessionId, PyStr(rec.session_id)>>, <<KeyTimestamp, PyStr(rec.timestamp)>>,
           <<KeyType, DictGet(rec.metadata.v, KeyType, PyStr(TypeMemory))>> >>,
        rec.metadata.v))

\* record.metadata and record.metadata.get("store_in_vector_db", False)
StoreFlagged(rec) ==
    /\ Truthy(rec.metadata)
    /\ Truthy(DictGet(rec.metadata.v, KeyStore, PyBool(FALSE)))

\* str(uuid.uuid4()): a value no earlier call has given; n counts the calls
UuidText(n) == <<"u">> \o NatToText(n)

\* create(record): uuid and now are what uuid4() and datetime.now() give;
\* f is the outcome of the remote calls of the vector store's upsert
MemoryCreate(d, rs, c, record, uuid, now, f) ==
    LET rec == [record EXCEPT
                  !.id = IF record.id = <<>> THEN uuid ELSE record.id,
                  !.timestamp = IF record.timestamp = <<>> THEN now ELSE record.timestamp]
        key == SessionKey(rec.app_id, rec.user_id, rec.session_id)
        d1 == IF SessionHas(d, key) THEN d ELSE PutKey(d, key, <<>>)
        d2 == PutKey(d1, key, Append(SessionGet(d1, key), rec))
        u == Upsert(rs, c, rec.id, rec.text, VectorMetadata(rec), f)
    IN  IF StoreFlagged(rec)
        THEN [val |-> rec, records |-> d2, rows |-> u.rows, cache |-> u.cache,
              upserted |-> TRUE, attempts |-> u.attempts, writes |-> u.writes,
              generated |-> record.id = <<>>]
        ELSE [val |-> rec, records |-> d2, rows |-> rs, cache |-> c,
              upserted |-> FALSE, attempts |-> 0, writes |-> 0,
              generated |-> record.id = <<>>]

\* get(app_id, user_id, session_id, record_id)
MemoryGet(d, app_id, user_id, session_id, record_id) ==
    LET list == SessionGet(d, SessionKey(app_id, user_id, session_id))
    IN  IF \E n \in 1..Len(list) : list[n].id = record_id
        THEN list[CHOOSE n \in 1..Len(list) :
                     /\ list[n].id = record_id
                     /\ \A m \in 1..(n - 1) : list[m].id # record_id]
        ELSE None

\* list(app_id, user_id, session_id)
MemoryList(d, app_id, user_id, session_id) ==
    SessionGet(d, SessionKey(app_id, user_id, session_id))

\* json.loads(hit["metadata"]), or the raw text when it does not parse
LoadedMetadata(loaded, metadata) ==
    IF loaded.exc = "" THEN loaded.val ELSE PyDict(<< <<KeyRaw, metadata>> >>)

\* the metadata search gives the record made from a hit
HitMetadata(hit) ==
    IF Truthy(hit.metadata)
    THEN IF IsStr(hit.metadata)
         THEN LoadedMetadata(JsonLoads(hit.metadata.v), hit.metadata)
         ELSE hit.metadata
    ELSE PyDict(<<>>)

\* MemoryRecord(id=..., app_id=..., ...) from a hit and its metadata
RecordOf(hit, metadata, query, now) ==
    [id |-> hit.doc_id,
     app_id |-> DictGet(metadata.v, KeyAppId, PyStr(query.app_id)).v,
     user_id |-> DictGet(metadata.v, KeyUserId, PyStr(query.user_id)).v,
     session_id |-> DictGet(metadata.v, KeySessionId, PyStr(query.session_id)).v,
     text |-> hit.content,
     timestamp |-> DictGet(metadata.v, KeyTimestamp, PyStr(now)).v,
     metadata |-> metadata]

HitRecord(hit, query, now) == RecordOf(hit, HitMetadata(hit), query, now)

\* the loop over the hits r.val of the vector store's search: a hit whose
\* metadata is not a dict makes .get fail, and the handler returns []
SearchRecords(r, query, now) ==
    [val |-> IF \A n \in 1..Len(r.val) : IsDict(HitMetadata(r.val[n]))
             THEN [n \in 1..Len(r.val) |-> HitRecord(r.val[n], query, now)]
             ELSE <<>>,
     cache |-> r.cache, log |-> r.log, fallback |-> r.fallback]

\* search(query): the hits of the vector store's search as records
MemorySearch(rs, c, query, now, f) ==
    IF query.query_text = <<>>
    THEN [val |-> <<>>, cache |-> c, log |-> <<>>, fallback |-> <<>>]
    ELSE SearchRecords(Search(rs, c, query.query_text,
                              IF query.limit = 0 THEN SEARCH_LIMIT_DEFAULT
                              ELSE query.limit, f),
                       query, now)

\* delete(app_id, user_id, session_id, record_id)
MemoryDelete(d, rs, app_id, user_id, session_id, record_id) ==
    LET key == SessionKey(app_id, user_id, session_id)
    IN  [val |-> TRUE,
         records |-> IF SessionHas(d, key)
                     THEN PutKey(d, key, SelectSeq(SessionGet(d, key),
                                                   LAMBDA rec : rec.id # record_id))
                     ELSE d,
         rows |-> rs]

\* clear(app_id, user_id, session_id)
MemoryClear(d, app_id, user_id, session_id) ==
    LET key == SessionKey(app_id, user_id, session_id)
    IN  [val |-> TRUE,
         records |-> IF SessionHas(d, key) THEN PutKey(d, key, <<>>) ELSE d]

(***************************************************************************)
(* Specification SpecMemory: up to MaxRecords records are created, then   *)
(* one delete or one clear is made and recorded, and a search follows the  *)
(* delete.                                                                 *)
(***************************************************************************)
MaxRecords == 2

AppA == <<"a">>
AppAB == <<"a", ":", "b">>
UserC == <<"c">>
UserBC == <<"b", ":", "c">>
SessionS == <<"s">>
Stamp == <<"t", "1">>
Now == <<"t", "2">>

MetaStore == PyDict(<< <<KeyStore, PyBool(TRUE)>> >>)
MetaNote == PyDict(<< <<KeyType, PyStr(<<"n">>)>> >>)

\* the sessions: the keys of the second and the third are the same text
MemorySessions ==
    {[app_id |-> AppA, user_id |-> UserC], [app_id |-> AppA, user_id |-> UserBC],
     [app_id |-> AppAB, user_id |-> UserC]}

\* a record comes without id and timestamp, or with both
NewRecords ==
    {[id |-> head.id, app_id |-> s.app_id, user_id |-> s.user_id, session_id |-> SessionS,
      text |-> text, timestamp |-> head.timestamp, metadata |-> metadata] :
        head \in {[id |-> <<>>, timestamp |-> <<>>], [id |-> IdA, timestamp |-> Stamp]},
        s \in MemorySessions, text \in {TextAbCd, TextZz},
        metadata \in {None, MetaStore, MetaNote}}

RECURSIVE CountRecords(_)
CountRecords(d) == IF d = <<>> THEN 0 ELSE Len(Head(d)[2]) + CountRecords(Tail(d))

MemoryCreateApply(r, f) ==
    /\ r.attempts = 0 => f.emb = 0
    /\ r.writes = 0 => f.db = "ok"
    /\ session_records' = r.records
    /\ rows' = r.rows
    /\ cache' = r.cache
    /\ uuids' = IF r.generated THEN uuids + 1 ELSE uuids
    /\ UNCHANGED <<last, embeds>>

MemoryCreateStep(record, f) ==
    /\ MemoryCreateApply(MemoryCreate(session_records, rows, cache, record,
                                      UuidText(uuids + 1), Now, f), f)

MemoryDeleteApply(r, app_id, user_id, session_id, record_id) ==
    /\ session_records' = r.records
    /\ rows' = r.rows
    /\ UNCHANGED <<cache, embeds, uuids>>
    /\ last' = [op |-> "memory_delete", app_id |-> app_id, user_id |-> user_id,
                session_id |-> session_id, record_id |-> record_id,
                before |-> session_records, val |-> r.val]

MemoryDeleteStep(app_id, user_id, session_id, record_id) ==
    /\ MemoryDeleteApply(MemoryDelete(session_records, rows, app_id, user_id,
                                      session_id, record_id),
                         app_id, user_id, session_id, record_id)

MemoryClearApply(r, app_id, user_id, session_id) ==
    /\ session_records' = r.records
    /\ UNCHANGED <<rows, cache, embeds, uuids>>
    /\ last' = [op |-> "memory_clear", app_id |-> app_id, user_id |-> user_id,
                session_id |-> session_id, before |-> session_records, val |-> r.val]

MemoryClearStep(app_id, user_id, session_id) ==
    /\ MemoryClearApply(MemoryClear(session_records, app_id, user_id, session_id),
                        app_id, user_id, session_id)

\* search(query) made after the recorded delete has returned
MemorySearchAfterApply(r, query, f) ==
    /\ FailsUsed(r, f)
    /\ cache' = r.cache
    /\ UNCHANGED <<rows, embeds, session_records, uuids>>
    /\ last' = [op |-> "memory_search_after", app_id |-> last.app_id,
                user_id |-> last.user_id, session_id |-> last.session_id,
                record_id |-> last.record_id, before |-> last.before,
                query |-> query, f |-> f, val |-> r.val]

MemorySearchAfterStep(query, f) ==
    /\ MemorySearchAfterApply(MemorySearch(rows, cache, query, Now, f), query, f)

MemoryCreateCall ==
    /\ last = Idle
    /\ CountRecords(session_records) < MaxRecords
    /\ \E record \in NewRecords, f \in {NoFail, [NoFail EXCEPT !.db = "raise"]} :
          MemoryCreateStep(record, f)

MemoryDeleteCall ==
    /\ last = Idle
    /\ \E s \in MemorySessions,
          record_id \in {IdA} \cup {UuidText(n) : n \in 1..MaxRecords} :
          MemoryDeleteStep(s.app_id, s.user_id, SessionS, record_id)

MemoryClearCall ==
    /\ last = Idle
    /\ \E s \in MemorySessions : MemoryClearStep(s.app_id, s.user_id, SessionS)

MemorySearchAfterCall ==
    /\ last # Idle
    /\ last.op = "memory_delete"
    /\ \E text \in {TextAbCd, TextZz, TextEmpty}, limit \in {0, 1},
          f \in {NoSearchFail, [NoSearchFail EXCEPT !.sim = "raise"]} :
          MemorySearchAfterStep([query_text |-> text, limit |-> limit,
                                 app_id |-> last.app_id, user_id |-> last.user_id,
                                 session_id |-> last.session_id], f)

NextMemory ==
    MemoryCreateCall \/ MemoryDeleteCall \/ MemoryClearCall \/ MemorySearchAfterCall

SpecMemory == Init /\ [][NextMemory]_vars

(***************************************************************************)
(* Claims about the write path, get and count (specification Spec)         *)
(***************************************************************************)
Watched(op) == last # Idle /\ last.op = op

NonEmptyDocs(docs) == SelectSeq(docs, LAMBDA d : d.content # <<>>)

\* every content of the batch is empty or has a non-whitespace character
PlainBatch(docs) == \A i \in 1..Len(docs) : docs[i].content = <<>> \/ ~IsBlank(docs[i].content)

NewIds(docs, rs) == \A i \in 1..Len(docs) : ~HasId(rs, docs[i].doc_id)

\* C1: an upsert_batch of N documents with distinct new ids, M < N of them with
\* empty content at any positions, that returns without error, returns exactly
\* N - M written documents, raises the row count by N - M and writes every
\* document whose content is not empty.
C1_BatchSkipsEmpty ==
    (/\ Watched("upsert_batch")
     /\ last.exc = ""
     /\ PlainBatch(last.documents)
     /\ NewIds(last.documents, last.before)
     /\ Len(NonEmptyDocs(last.documents)) > 0)
    => /\ Len(last.val) = Len(NonEmptyDocs(last.documents))
       /\ Len(rows) = Len(last.before) + Len(NonEmptyDocs(last.documents))
       /\ \A i \in 1..Len(last.documents) :
             last.documents[i].content # <<>> => HasId(rows, last.documents[i].doc_id)

\* C2: after an upsert of a document with non-empty id, non-blank content and a
\* dict metadata has succeeded, get_document of that id (no write in between)
\* returns a document whose content and metadata equal the ones upserted.
C2_UpsertGetRoundTrip ==
    (Watched("upsert") /\ last.exc = "" /\ IsDict(last.metadata))
    => /\ GetDocument(rows, last.doc_id, "ok").val # None
       /\ GetDocument(rows, last.doc_id, "ok").val.content = last.content
       /\ GetDocument(rows, last.doc_id, "ok").val.metadata = last.metadata

\* a successful upsert of {"k": [1, "v"]}: the row holds the metadata as JSON text
C2_Witness ==
    /\ Watched("upsert")
    /\ last.exc = ""
    /\ last.metadata = MetaK
    /\ last.val.metadata = PyStr(JsonDumps(MetaK))
    /\ HasId(rows, last.doc_id)

\* C3: delete of a stored id (the backend call succeeding) returns True and a
\* following get_document of it returns None; delete of an id that is not
\* stored returns False, raises nothing and leaves every row as it was.
C3_Delete ==
    Watched("delete")
    => /\ (HasId(last.before, last.doc_id) /\ last.db = "ok")
             => /\ last.exc = ""
                /\ last.val = TRUE
                /\ GetDocument(rows, last.doc_id, "ok").val = None
       /\ ~HasId(last.before, last.doc_id)
             => /\ last.exc = ""
                /\ last.val = FALSE
                /\ rows = last.before

\* a delete that removed one of two stored rows
C3_Witness ==
    /\ Watched("delete")
    /\ Len(last.before) = 2
    /\ HasId(last.before, last.doc_id)
    /\ last.val = TRUE
    /\ Len(rows) = 1

\* the backend call of the watched write failed
WriteFailed ==
    \/ Watched("delete") /\ last.db # "ok"
    \/ Watched("upsert") /\ last.writes = 1 /\ last.f.db \in {"raise", "error"}

\* C4: when the backend call inside delete or upsert fails, the store method
\* raises and the tool reports status "error"; the failure is never reported
\* as False / "not found".
C4_WriteFailureExplicit ==
    WriteFailed => (last.exc # "" /\ last.status = "error")

(***************************************************************************)
(* Claims about search and the lexical fallback (specification SpecSearch) *)
(***************************************************************************)
\* the embedding call of the watched search failed after its retries
EmbedFailed == CountCalls(last.log, {"embed"}) > 0 /\ last.f.emb >= MAX_RETRIES

RpcIssued == CountCalls(last.log, {"rpc"}) = 1

SimFailed == RpcIssued /\ last.f.sim \in {"raise", "error"}

\* the rows the similarity query of the watched search answered with
SimRows ==
    IF last.f.sim = "ok"
    THEN DbSimilarity(last.before, ServiceEmbedding(last.query), last.top_k)
    ELSE <<>>

SimZero == RpcIssued /\ last.f.sim \in {"ok", "empty"} /\ SimRows = <<>>

FallbackRan == last.fallback # <<>>

\* C5: a search with empty or whitespace-only query text is rejected with a
\* validation error: the caller gets the error, and no embedding call, no
\* similarity query and no fallback query is issued.
C5_BlankQueryRejected ==
    (Watched("search") /\ IsBlank(last.query))
    => (last.exc = "ValueError" /\ last.status = "error" /\ last.log = <<>>)

\* C6: search never raises: for a non-empty query and any combination of
\* embedding failure, similarity-query failure and fallback-query failures it
\* returns a list, and supabase_search reports status "success".
C6_SearchNeverRaises ==
    (Watched("search") /\ last.query # <<>>)
    => (last.exc = "" /\ last.status = "success" /\ DOMAIN last.val = 1..Len(last.val))

\* every remote call of a search failed: embedding retries exhausted, the first
\* fallback query raised, the handler's query raised
C6_Witness ==
    /\ Watched("search")
    /\ last.before # <<>>
    /\ last.f.emb = MAX_RETRIES
    /\ last.f.fb = 1
    /\ last.f.lastresort = "raise"
    /\ last.val = <<>>

\* C7: for a query that passes validation, search hands over to the fallback,
\* with the same query and top_k, exactly when the embedding call fails, the
\* similarity query fails or it returns no rows; otherwise the fallback is not
\* invoked and the rows of the similarity query are the result.
C7_FallbackExactlyWhen ==
    (Watched("search") /\ ~IsBlank(last.query))
    => /\ FallbackRan <=> (EmbedFailed \/ SimFailed \/ SimZero)
       /\ FallbackRan => (/\ last.fallback[1].query = last.query
                          /\ last.fallback[1].top_k = last.top_k)
       /\ ~FallbackRan => (/\ Len(last.val) >= 1
                           /\ Len(last.val) = Len(SimRows)
                           /\ \A i \in 1..Len(last.val) :
                                 /\ last.val[i].doc_id = SimRows[i].doc_id
                                 /\ last.val[i].content = SimRows[i].content
                                 /\ last.val[i].score = SimRows[i].score)

\* a similarity query that ran and answered with no data, followed by the fallback
C7_Witness ==
    /\ Watched("search")
    /\ last.f.sim = "empty"
    /\ Len(last.before) = 2
    /\ FallbackRan
    /\ last.fallback[1].top_k = 1
    /\ Len(last.val) = 1

Stored(doc, rs) == \E i \in 1..Len(rs) : rs[i] = doc

\* C8 as claimed (for a query that passes validation and top_k >= 1): whenever the fallback runs, stages 1 to 3
\* yield no results (nothing matches, or a fallback query failed) and the store
\* is reachable and non-empty, the fallback returns a non-empty list of at most
\* top_k stored documents.
C8_AbsoluteFallback ==
    (/\ Watched("search")
     /\ FallbackRan
     /\ ~IsBlank(last.query)
     /\ last.top_k >= 1
     /\ last.before # <<>>
     /\ last.f.lastresort = "ok"
     /\ (HandlerRan(last) \/ last.val = <<>>))
    => /\ last.val # <<>>
       /\ Len(last.val) <= last.top_k
       /\ \A i \in 1..Len(last.val) : Stored(last.val[i], last.before)

\* stage 3 was the last query and no stored content contains a query term
Stage3NoMatch ==
    /\ ~HandlerRan(last)
    /\ last.log # <<>>
    /\ last.log[Len(last.log)] = SelectCall(FETCH_CAP)
    /\ \A i \in 1..Len(last.before) :
          ~AnyTermIn(QueryWords(last.query), last.before[i].content)

\* C8 amended: the last-resort fetch runs only in the exception handler.  When
\* a step of the fallback raises and the handler's fetch succeeds, the result
\* is the first min(top_k, row count) stored documents; when the handler's
\* fetch fails too, or when nothing raises and stage 3 matches nothing, the
\* result is the empty list.
C8_LastResortAfterError ==
    (Watched("search") /\ FallbackRan)
    => /\ (HandlerRan(last) /\ last.f.lastresort = "ok")
             => last.val = Take(last.before, last.top_k)
       /\ (HandlerRan(last) /\ last.f.lastresort = "raise") => last.val = <<>>
       /\ Stage3NoMatch => last.val = <<>>

\* a fallback query raised and the handler returned one of two stored documents
C8_Witness ==
    /\ Watched("search")
    /\ HandlerRan(last)
    /\ last.f.fb >= 1
    /\ last.f.lastresort = "ok"
    /\ last.top_k = 1
    /\ Len(last.before) = 2
    /\ last.val = <<last.before[1]>>

\* text contains the words one after the other, in order
RECURSIVE WordsInOrder(_, _)
WordsInOrder(text, words) ==
    IF words = <<>> THEN TRUE
    ELSE \E i \in 1..(Len(text) - Len(Head(words)) + 1) :
            /\ SubSeq(text, i, i + Len(Head(words)) - 1) = Head(words)
            /\ WordsInOrder(SubSeq(text, i + Len(Head(words)), Len(text)), Tail(words))

HasQueryWords(content) == WordsInOrder(Lower(content), QueryWords(last.query))

\* the fallback issued exactly one query, a pattern query
Stage1Only ==
    /\ CountCalls(last.log, {"ilike", "select"}) = 1
    /\ last.log[Len(last.log)].call = "ilike"

\* C9 as claimed: when the similarity search returns zero rows (and no fallback
\* query fails) and some stored content contains all the query's words in
\* order, search returns a non-empty result of stage 1 made only of documents
\* that match, and no later stage is queried.
C9_Stage1Serves ==
    (/\ Watched("search")
     /\ SimZero
     /\ last.f.fb = 0
     /\ \E i \in 1..Len(last.before) : HasQueryWords(last.before[i].content))
    => /\ last.val # <<>>
       /\ \A i \in 1..Len(last.val) : HasQueryWords(last.val[i].content)
       /\ Stage1Only

\* C9 amended: the same, for top_k >= 1 and a query that has at least one word
\* once "?" and "." are stripped.
C9_Stage1ServesWords ==
    (/\ Watched("search")
     /\ SimZero
     /\ last.f.fb = 0
     /\ last.top_k >= 1
     /\ QueryWords(last.query) # <<>>
     /\ \E i \in 1..Len(last.before) : HasQueryWords(last.before[i].content))
    => /\ last.val # <<>>
       /\ \A i \in 1..Len(last.val) : HasQueryWords(last.val[i].content)
       /\ Stage1Only

\* "ab cd" finds "Ab cd" among three documents after an empty similarity answer
C9_Witness ==
    /\ Watched("search")
    /\ last.f.sim = "empty"
    /\ last.query = QueryAbCd
    /\ last.top_k = MaxTopK
    /\ Len(last.before) = 3
    /\ Len(last.val) = 1
    /\ last.val[1].doc_id = IdA

\* C10: for every search with top_k >= 0, on every path, the returned list has
\* at most top_k elements.
C10_AtMostTopK ==
    Watched("search") => Len(last.val) <= last.top_k

\* the handler's fetch cut three stored documents down to top_k = 1
C10_Witness ==
    /\ Watched("search")
    /\ HandlerRan(last)
    /\ last.top_k = 1
    /\ Len(last.before) = 3
    /\ Len(last.val) = 1

(***************************************************************************)
(* Claims about the failures of upsert (specification Spec)                *)
(***************************************************************************)
\* C17: upsert with empty or whitespace-only content, or with an empty id,
\* fails with a validation error before any embedding call and before any
\* write: the stored rows and the embedding cache are unchanged.
C17_UpsertValidatesFirst ==
    (Watched("upsert") /\ (IsBlank(last.content) \/ last.doc_id = <<>>))
    => /\ last.exc = "ValueError"
       /\ last.status = "error"
       /\ last.attempts = 0
       /\ last.writes = 0
       /\ rows = last.before
       /\ cache = last.cache_before

\* an upsert of valid, not yet embedded content under the empty id, on a store
\* that holds a row and a cache that holds another text
C17_Witness ==
    /\ Watched("upsert")
    /\ last.doc_id = <<>>
    /\ ~IsBlank(last.content)
    /\ last.before # <<>>
    /\ last.cache_before # <<>>
    /\ ~CacheHas(last.cache_before, last.content)
    /\ last.exc = "ValueError"

\* the embedding call of the watched upsert was made and failed on every attempt
UpsertEmbedFailed ==
    /\ ~IsBlank(last.content)
    /\ last.doc_id # <<>>
    /\ ~CacheHas(last.cache_before, last.content)
    /\ last.f.emb >= MAX_RETRIES

\* the embedding of the watched upsert was obtained and the write failed
UpsertWriteFailed ==
    /\ ~IsBlank(last.content)
    /\ last.doc_id # <<>>
    /\ (CacheHas(last.cache_before, last.content) \/ last.f.emb < MAX_RETRIES)
    /\ last.f.db \in {"raise", "error"}

\* C18: in upsert, when the embedding call fails after its retries no write is
\* attempted and the error is raised; when the embedding succeeds and the
\* write fails the error is raised after exactly one write attempt; in both
\* cases the stored rows are unchanged.
C18_UpsertFailureOrder ==
    Watched("upsert")
    => /\ UpsertEmbedFailed
            => (/\ last.exc = "EmbeddingError"
                /\ last.status = "error"
                /\ last.attempts = MAX_RETRIES
                /\ last.writes = 0
                /\ rows = last.before)
       /\ UpsertWriteFailed
            => (/\ last.exc \in {"APIError", "RuntimeError"}
                /\ last.status = "error"
                /\ last.writes = 1
                /\ rows = last.before)

\* a write that failed after an embedding obtained on the third attempt
C18_Witness ==
    /\ Watched("upsert")
    /\ UpsertWriteFailed
    /\ last.attempts = MAX_RETRIES
    /\ last.before # <<>>
    /\ last.f.db = "error"
    /\ last.writes = 1

(***************************************************************************)
(* Claims about the embedder (specification SpecEmbed)                     *)
(***************************************************************************)
\* the position in history h of the last call that returned a vector for text
LastUse(h, text) ==
    CHOOSE i \in 1..Len(h) : h[i][1] = text /\ \A j \in (i + 1)..Len(h) : h[j][1] # text

\* the distinct other texts embedded since the last use of text
OthersSince(h, text) == {h[j][1] : j \in (LastUse(h, text) + 1)..Len(h)}

\* C13: after _embed_single(t) has returned, a later _embed_single(t) with the
\* same text, made while fewer than the cache capacity distinct other texts
\* have been embedded since the last use of t, issues no remote call and
\* returns the same vector.
C13_CacheHit ==
    (/\ Watched("embed_one")
     /\ last.text \in EmbeddedTexts(last.embeds_before)
     /\ Cardinality(OthersSince(last.embeds_before, last.text)) < CACHE_MAXSIZE)
    => /\ last.exc = ""
       /\ last.attempts = 0
       /\ last.sleeps = <<>>
       /\ last.val = last.embeds_before[LastUse(last.embeds_before, last.text)][2]

\* the first text is asked for again when the cache is full and one less than
\* its capacity other texts have been embedded since its last use
C13_Witness ==
    /\ Watched("embed_one")
    /\ last.text = EText(1)
    /\ last.text \in EmbeddedTexts(last.embeds_before)
    /\ Len(last.cache_before) = CACHE_MAXSIZE
    /\ Cardinality(OthersSince(last.embeds_before, last.text)) = CACHE_MAXSIZE - 1
    /\ last.attempts = 0

EmbedWatched == Watched("embed_one") \/ Watched("embed_many")

\* what the service returns for the input of the watched call
ServiceAnswer ==
    IF last.op = "embed_one"
    THEN ServiceEmbedding(last.text)
    ELSE [i \in 1..Len(SelectSeq(last.texts, LAMBDA x : ~IsBlank(x))) |->
              ServiceEmbedding(SelectSeq(last.texts, LAMBDA x : ~IsBlank(x))[i])]

\* C14: every _embed_single and _embed_batch call issues at most MAX_RETRIES
\* (3) remote attempts; it returns the vectors of the first attempt that
\* succeeds, and when every attempt fails it raises after exactly MAX_RETRIES
\* attempts, with no sleep after the last one.
C14_RetryBound ==
    EmbedWatched
    => /\ last.attempts <= MAX_RETRIES
       /\ (last.attempts > 0 /\ last.nfail < MAX_RETRIES)
            => (/\ last.exc = ""
                /\ last.attempts = last.nfail + 1
                /\ Len(last.sleeps) = last.nfail
                /\ last.val = ServiceAnswer)
       /\ last.nfail >= MAX_RETRIES
            => (/\ last.exc = "EmbeddingError"
                /\ last.attempts = MAX_RETRIES
                /\ Len(last.sleeps) = MAX_RETRIES - 1)

\* a batch call that failed twice and returned two vectors on the third attempt
C14_Witness ==
    /\ Watched("embed_many")
    /\ last.nfail = MAX_RETRIES - 1
    /\ last.attempts = MAX_RETRIES
    /\ last.exc = ""
    /\ Len(last.val) = 2

\* C15: in _embed_single and in _embed_batch, the delay slept before retry
\* n + 1 is strictly greater than the delay slept before retry n (the base
\* delay times the attempt number).
C15_Backoff ==
    EmbedWatched
    => /\ \A n \in 1..(Len(last.sleeps) - 1) : last.sleeps[n + 1] > last.sleeps[n]
       /\ \A n \in 1..Len(last.sleeps) : last.sleeps[n] = RETRY_DELAY * n

\* C16: _embed_single with empty or whitespace-only text raises the
\* invalid-input error without any remote call, on every call: nothing is
\* retried and no vector is cached for the text.
C16_BlankTextRejected ==
    (Watched("embed_one") /\ IsBlank(last.text))
    => /\ last.exc = "ValueError"
       /\ last.attempts = 0
       /\ last.sleeps = <<>>
       /\ cache = last.cache_before
       /\ ~CacheHas(cache, last.text)

\* a whitespace-only text rejected while the cache holds other texts
C16_Witness ==
    /\ Watched("embed_one")
    /\ last.text = TextSpace
    /\ last.cache_before # <<>>
    /\ last.exc = "ValueError"

(***************************************************************************)
(* Claims about score_threshold and search after upsert (SpecSearch)       *)
(***************************************************************************)
\* score (dot product over the root of norms2) is below the fraction thr
ScoreBelow(score, thr) ==
    (score.dot * thr.den) * (score.dot * thr.den) < thr.num * thr.num * score.norms2

\* C11: search accepts an optional score_threshold and, when it is provided,
\* returns no result of the similarity path with a score below it.
C11_ScoreThreshold ==
    Watched("search_threshold")
    => /\ last.exc = ""
       /\ \A i \in 1..Len(last.val) : ~ScoreBelow(last.val[i].score, last.threshold)

\* the result holds the document the upsert stored
ReturnsUpserted ==
    \E i \in 1..Len(last.val) :
        /\ last.val[i].doc_id = last.doc_id
        /\ last.val[i].content = last.content
        /\ last.val[i].metadata = last.metadata

\* C12 as claimed: right after a successful upsert(D), search(D.content, top_k)
\* with top_k >= 1 and no failing remote call returns a list that contains D,
\* whatever else the store holds.
C12_FindsUpserted ==
    Watched("search_after") => ReturnsUpserted

\* the other stored rows whose embedding is as near to the query's as D's
TiedOthers ==
    {i \in 1..Len(last.before) :
        /\ last.before[i].doc_id # last.doc_id
        /\ ~Nearer(ServiceEmbedding(last.content), ServiceEmbedding(last.content),
                   last.before[i].embedding)}

\* C12 amended: the same, provided fewer than top_k other stored documents have
\* an embedding as near to the query's as D's (documents with the same content
\* under other ids are such documents).
C12_FindsUpsertedUnlessTied ==
    (Watched("search_after") /\ Cardinality(TiedOthers) < last.top_k)
    => (last.fallback = <<>> /\ ReturnsUpserted)

\* D is found next to another document with the same content, among three
C12_Witness ==
    /\ Watched("search_after")
    /\ Len(last.before) = 3
    /\ Cardinality(TiedOthers) = 1
    /\ last.top_k = 2
    /\ ReturnsUpserted

(***************************************************************************)
(* Claims about failures inside a batch (specification SpecBatch)          *)
(***************************************************************************)
\* the documents of the chunks before the chunk that ended the watched batch
ChunksBefore == SubSeq(last.documents, 1, (last.chunk - 1) * BATCH_SIZE)

\* the same call made with those documents only, no remote call failing
BeforeAbort ==
    UpsertBatch(last.before, ChunksBefore,
                BatchFail(NumChunks(ChunksBefore), 0, "none"))

\* the response tells the number n: as its count, or in its message
CarriesCount(response, n) ==
    \/ "count" \in DOMAIN response /\ response.count = n
    \/ Contains(response.message, NatToText(n))

\* the table holds what the chunks before the failing one committed, and no
\* call was issued for a later chunk
AbortedAtChunk ==
    /\ rows = BeforeAbort.rows
    /\ last.writes <= BeforeAbort.writes + 1
    /\ last.embed_calls <= BeforeAbort.embed_calls + MAX_RETRIES

\* C19: in upsert_batch a write failure of chunk k aborts the batch: no chunk
\* after k is embedded or written, the rows of the chunks before k stay
\* committed, and the error surfaced to the caller and the tool's response
\* carries the count of documents already committed.  Stated for k >= 2, where
\* chunks before k exist.
C19_WriteFailureAborts ==
    (/\ Watched("upsert_batch")
     /\ last.exc \in {"APIError", "RuntimeError"}
     /\ last.chunk >= 2)
    => /\ AbortedAtChunk
       /\ last.response.status = "error"
       /\ CarriesCount(last.response, Len(BeforeAbort.val))

\* C20: when the embedding of chunk k fails after its retries, the result
\* reported to the caller still contains the documents of the chunks that
\* succeeded before k, in input order, with a count of the documents embedded.
\* Stated for k >= 2, where chunks before k exist.
C20_EmbedFailureKeepsPrior ==
    (Watched("upsert_batch") /\ last.exc = "EmbeddingError" /\ last.chunk >= 2)
    => /\ rows = BeforeAbort.rows
       /\ last.val = BeforeAbort.val
       /\ CarriesCount(last.response, Len(BeforeAbort.val))

(***************************************************************************)
(* C26: the vectors of a batch embedding                                   *)
(***************************************************************************)
\* the positions of the texts that are not blank, and the place of
\* position i among them
NonBlankAt(texts) == {i \in 1..Len(texts) : ~IsBlank(texts[i])}

PlaceOf(texts, i) == Cardinality({j \in NonBlankAt(texts) : j <= i})

\* C26: _embed_batch returns exactly one vector per non-blank input text, in
\* the order of those inputs; blank inputs are skipped without failing the
\* batch, and an input list that is empty or holds only blank texts returns
\* the empty list without any remote call.
C26_EmbedManyPerInput ==
    Watched("embed_many")
    => /\ last.exc = ""
          => /\ Len(last.val) = Cardinality(NonBlankAt(last.texts))
             /\ \A i \in NonBlankAt(last.texts) :
                    last.val[PlaceOf(last.texts, i)] = ServiceEmbedding(last.texts[i])
       /\ last.nfail < MAX_RETRIES => last.exc = ""
       /\ NonBlankAt(last.texts) = {}
          => /\ last.exc = ""
             /\ last.val = <<>>
             /\ last.attempts = 0

\* a batch with a blank text between two others returned two vectors
C26_Witness ==
    /\ Watched("embed_many")
    /\ Len(last.texts) = 3
    /\ IsBlank(last.texts[2])
    /\ last.exc = ""
    /\ Len(last.val) = 2
    /\ last.attempts = 1

(***************************************************************************)
(* C27, C28: the rows the write path stores                                *)
(***************************************************************************)
\* the rows the watched upsert or upsert_batch wrote
WrittenRows ==
    IF last.exc # "" THEN <<>>
    ELSE IF last.op = "upsert" THEN <<last.val>> ELSE last.val

\* C27: every row written by upsert or upsert_batch carries the embedding the
\* embedding service returns for that row's own content, for every batch,
\* also one with empty or whitespace-only contents at any position.
C27_RowsCarryOwnEmbedding ==
    (Watched("upsert") \/ Watched("upsert_batch"))
    => \A i \in 1..Len(WrittenRows) :
          WrittenRows[i].embedding = ServiceEmbedding(WrittenRows[i].content)

\* C28: after any sequence of upsert and upsert_batch calls, no stored row
\* has content that is empty or consists only of whitespace.
C28_NoBlankContent ==
    \A i \in 1..Len(rows) : ~IsBlank(rows[i].content)

(***************************************************************************)
(* C29, C30: the stages of the fallback (specification SpecSearch)         *)
(***************************************************************************)
\* the pattern queries stage 1 may issue for the watched query, from 0
Stage1Indexes ==
    {i \in 0..LAST_SUFFIX_INDEX : i < Len(QueryWords(last.query))}

Stage1Yields(i) ==
    DbSelectILike(last.before, SuffixPattern(QueryWords(last.query), i), last.top_k)

\* the words that follow the first "project" of the watched query
AfterProject ==
    SplitWords(SplitOn(Lower(last.query), ProjectWord)[2])

Stage2Yields ==
    IF Contains(Lower(last.query), ProjectWord) /\ AfterProject # <<>>
    THEN DbSelectILike(last.before,
                       <<"%">> \o ProjectWord \o <<" ">> \o AfterProject[1] \o <<"%">>,
                       last.top_k)
    ELSE <<>>

\* the first top_k, in store order, of the up-to-100 fetched documents whose
\* content contains a query term
Stage3Expected ==
    Take(SelectSeq(Take(last.before, FETCH_CAP),
                   LAMBDA d : AnyTermIn(QueryWords(last.query), d.content)),
         last.top_k)

\* C29: for every query, also one in which nothing follows the word
\* "project", when the fallback runs, stages 1 and 2 yield no results and no
\* backend call fails, stage 3 is executed and the fallback returns exactly
\* the first top_k, in store order, of the up-to-100 fetched documents whose
\* content contains at least one query term case-insensitively.
C29_Stage3AfterNoResults ==
    (/\ Watched("search")
     /\ FallbackRan
     /\ last.f.fb = 0
     /\ \A i \in Stage1Indexes : Stage1Yields(i) = <<>>
     /\ Stage2Yields = <<>>)
    => /\ ~HandlerRan(last)
       /\ last.log[Len(last.log)] = SelectCall(FETCH_CAP)
       /\ last.val = Stage3Expected

\* the queries the fallback of the watched search sent to the table, in order
FallbackLog == SelectSeq(last.log, LAMBDA c : c.call \in {"ilike", "select"})

\* the pattern query for the suffix of the query words from word i + 1 on
SuffixQuery(i) == ILikeCall(SuffixPattern(QueryWords(last.query), i), last.top_k)

\* the suffixes whose pattern query yields rows
Stage1Hits == {i \in Stage1Indexes : Stage1Yields(i) # <<>>}

FirstHit == CHOOSE i \in Stage1Hits : \A j \in Stage1Hits : i <= j

Stage2Query ==
    ILikeCall(<<"%">> \o ProjectWord \o <<" ">> \o AfterProject[1] \o <<"%">>, last.top_k)

\* C30: stage 1 of the fallback issues pattern queries for the word-suffixes
\* of the query in order (all words, then without the first word, and so on),
\* at most min(4, number of words) of them; it returns the result of the first
\* query that yields any row and issues no further query after that one.
C30_Stage1Suffixes ==
    (Watched("search") /\ FallbackRan /\ last.f.fb = 0)
    => /\ Stage1Hits # {}
            => /\ Len(FallbackLog) = FirstHit + 1
               /\ \A i \in 0..FirstHit : FallbackLog[i + 1] = SuffixQuery(i)
               /\ last.val = Stage1Yields(FirstHit)
       /\ Stage1Hits = {}
            => /\ Len(FallbackLog) >= Cardinality(Stage1Indexes)
               /\ \A i \in Stage1Indexes : FallbackLog[i + 1] = SuffixQuery(i)
               /\ \A n \in (Cardinality(Stage1Indexes) + 1)..Len(FallbackLog) :
                     \/ FallbackLog[n].call = "select"
                     \/ /\ n = Cardinality(Stage1Indexes) + 1
                        /\ Contains(Lower(last.query), ProjectWord)
                        /\ AfterProject # <<>>
                        /\ FallbackLog[n] = Stage2Query

\* "zz cd?": the pattern of both words matched nothing, the pattern of the
\* second word found "Ab cd", and nothing was queried after it
C30_Witness ==
    /\ Watched("search")
    /\ FallbackRan
    /\ last.f.fb = 0
    /\ last.query = QueryZzCd
    /\ last.top_k >= 1
    /\ Len(FallbackLog) = 2
    /\ FallbackLog[2] = ILikeCall(<<"%", "c", "d", "%">>, last.top_k)
    /\ Len(last.val) = 1
    /\ last.val[1].doc_id = IdA

(***************************************************************************)
(* C21 .. C24: deleting, repeating and reporting (specification SpecDelete)*)
(***************************************************************************)
InList(id, ids) == \E n \in 1..Len(ids) : ids[n] = id

\* C22: delete_batch(ids) whose backend call does not fail removes exactly
\* the stored rows whose id is in ids, leaves all other rows unchanged,
\* ignores ids with no match and returns the number of rows removed; with an
\* empty id list it returns 0 without issuing any backend call.
C22_DeleteBatchExact ==
    (Watched("delete_batch") /\ last.db = "ok")
    => /\ last.exc = ""
       /\ rows = SelectSeq(last.before, LAMBDA r : ~InList(r.doc_id, last.doc_ids))
       /\ last.val = Len(last.before) - Len(rows)
       /\ last.val = Cardinality({i \in 1..Len(last.before) :
                                     InList(last.before[i].doc_id, last.doc_ids)})
       /\ last.doc_ids = <<>> => (last.val = 0 /\ last.calls = 0)

\* C21: an identical upsert(id, content, metadata) made twice leaves the same
\* stored rows as made once (same row count, same content, vector and
\* metadata for id); delete(id) made twice leaves the same stored rows as
\* once, and the second delete returns false without error.
C21_Idempotent ==
    /\ Watched("upsert_twice")
       => /\ rows = last.once
          /\ Len(DbSelectEq(rows, last.doc_id)) = 1
    /\ Watched("delete_twice")
       => /\ last.exc = ""
          /\ rows = last.once
          /\ last.val = FALSE
          /\ last.status = "warning"

\* the upsert of a new id into a table of one row, made twice: the first
\* call added the row; the second took the vector from the cache, attempted
\* its write, and the table holds the same two rows
C21_Witness ==
    /\ Watched("upsert_twice")
    /\ Len(last.before) = 1
    /\ ~HasId(last.before, last.doc_id)
    /\ last.first # None
    /\ last.attempts = 0
    /\ last.writes = 1
    /\ Len(rows) = 2
    /\ DbSelectEq(rows, last.doc_id)[1].content = last.content

OneRowPerId(rs) ==
    \A i, j \in 1..Len(rs) : rs[i].doc_id = rs[j].doc_id => i = j

\* C23: after any sequence of upsert, upsert_batch, delete and delete_batch
\* the store holds at most one row per id; an upsert on an id that is already
\* stored replaces that row's content, vector and metadata and leaves the
\* row count unchanged.
C23_OneRowPerId ==
    /\ OneRowPerId(rows)
    /\ (Watched("upsert") /\ HasId(last.before, last.doc_id))
       => /\ last.exc = ""
          /\ Len(rows) = Len(last.before)
          /\ \A i \in 1..Len(rows) :
                IF last.before[i].doc_id = last.doc_id
                THEN /\ rows[i].doc_id = last.doc_id
                     /\ rows[i].content = last.content
                     /\ rows[i].embedding = ServiceEmbedding(last.content)
                     /\ rows[i].metadata = StoredMetadata(last.metadata)
                ELSE rows[i] = last.before[i]

\* C24: when the backend call inside get_document, count_documents or
\* delete_batch fails, the caller receives a failure outcome that is
\* distinguishable from the success values "absent", 0 rows and 0 removed.
C24_ReadFailuresTagged ==
    /\ (Watched("get") /\ last.db # "ok")
       => (last.exc # "" \/ (last.val # None /\ last.status = "error"))
    /\ (Watched("count") /\ last.db # "ok")
       => (last.exc # "" \/ (last.val # 0 /\ last.status = "error"))
    /\ (Watched("delete_batch") /\ last.db # "ok")
       => (last.exc # "" \/ last.val # 0)

(***************************************************************************)
(* C25: concurrent upserts of one id (specification SpecConcurrent)        *)
(***************************************************************************)
\* the row a call of the pair wrote: all of it comes from that call
WholeRowOf(call) ==
    [doc_id |-> call.doc_id, content |-> call.content,
     embedding |-> ServiceEmbedding(call.content),
     metadata |-> StoredMetadata(call.metadata)]

PairDone == \A p \in 1..2 : last.calls[p].pc = "done"

\* C25: for two concurrent upserts of one id with different content and
\* metadata, under every interleaving of their embedding and write steps,
\* the stored row of the id is never a mix of the two: after each write it
\* is the whole row of the call whose write was applied last; once both have
\* completed it is the row of the later write, and neither call has failed.
C25_LastWriteWins ==
    Watched("upsert_pair")
    => /\ last.order # <<>>
          => DbSelectEq(rows, last.calls[1].doc_id)
               = <<WholeRowOf(last.calls[last.order[Len(last.order)]])>>
       /\ last.order = <<>> => rows = last.before
       /\ \A i \in 1..Len(rows) :
             rows[i].doc_id # last.calls[1].doc_id => rows[i] \in {last.before[j] : j \in 1..Len(last.before)}
       /\ PairDone
          => /\ Len(last.order) = 2
             /\ \A p \in 1..2 : /\ last.calls[p].exc = ""
                                /\ last.calls[p].val = WholeRowOf(last.calls[p])

(***************************************************************************)
(* C31: stage 2 of the fallback (specification SpecSearch)                 *)
(***************************************************************************)
\* the words of the lowered query, and the places of the word "project"
LowerWords == SplitWords(Lower(last.query))

ProjectAt == {i \in 1..Len(LowerWords) : LowerWords[i] = ProjectWord}

FirstProject == CHOOSE i \in ProjectAt : \A j \in ProjectAt : i <= j

\* the pattern queries the fallback issued after those of stage 1
Stage2Issued ==
    {n \in (Cardinality(Stage1Indexes) + 1)..Len(FallbackLog) :
        FallbackLog[n].call = "ilike"}

WordPattern == <<"%">> \o ProjectWord \o <<" ">> \o LowerWords[FirstProject + 1] \o <<"%">>

\* C31: stage 2 is attempted only after stage 1 yielded nothing and only
\* when the query contains the word "project" as a whole word; it then
\* issues exactly one query, whose pattern is "project " followed by the
\* token that immediately follows that word in the query, and returns its
\* rows if there are any.
C31_Stage2WholeWord ==
    (Watched("search") /\ FallbackRan /\ last.f.fb = 0)
    => /\ Stage2Issued # {} => (Stage1Hits = {} /\ ProjectAt # {})
       /\ (Stage1Hits = {} /\ ProjectAt # {} /\ FirstProject < Len(LowerWords))
          => /\ Cardinality(Stage2Issued) = 1
             /\ \A n \in Stage2Issued : FallbackLog[n] = ILikeCall(WordPattern, last.top_k)
             /\ DbSelectILike(last.before, WordPattern, last.top_k) # <<>>
                => last.val = DbSelectILike(last.before, WordPattern, last.top_k)

(***************************************************************************)
(* C32: the order of the similarity results (specification SpecSearch)     *)
(***************************************************************************)
\* score s is lower than score t (scores are positive cosines, kept as the
\* dot product and the product of the squared norms)
ScoreLower(s, t) == s.dot * s.dot * t.norms2 < t.dot * t.dot * s.norms2

\* the cosine of the angle between the vectors u and v, in the same form
Cosine(u, v) == [dot |-> Dot(u, v), norms2 |-> Dot(u, u) * Dot(v, v)]

\* C32: the list returned by the similarity path of search is ordered by
\* non-increasing score, and each row's score is 1 minus the cosine distance
\* between the query vector and the row's stored vector.
C32_ScoreOrder ==
    (Watched("search") /\ ~FallbackRan)
    => /\ \A i \in 1..Len(last.val) :
             /\ HasId(last.before, last.val[i].doc_id)
             /\ last.val[i].score
                  = Cosine(ServiceEmbedding(last.query),
                           DbSelectEq(last.before, last.val[i].doc_id)[1].embedding)
       /\ \A i, j \in 1..Len(last.val) :
             i < j => ~ScoreLower(last.val[i].score, last.val[j].score)

\* "zz cd?" on three documents: "zz.", stored last, comes first with a score
\* strictly above that of the second result
C32_Witness ==
    /\ Watched("search")
    /\ ~FallbackRan
    /\ last.query = QueryZzCd
    /\ Len(last.before) = 3
    /\ Len(last.val) = 2
    /\ last.val[1].doc_id = last.before[3].doc_id
    /\ ScoreLower(last.val[2].score, last.val[1].score)

(***************************************************************************)
(* C33, C38: the capacity of the cache and failed calls (SpecEmbed)        *)
(***************************************************************************)
CachedTexts(c) == {c[i][1] : i \in 1..Len(c)}

\* the text of c whose last use in history h lies furthest back
LeastRecent(c, h) ==
    CHOOSE t \in CachedTexts(c) : \A u \in CachedTexts(c) : LastUse(h, t) <= LastUse(h, u)

\* C33: after any sequence of _embed_single calls the cache holds at most its
\* capacity (100) of entries, and when a new text is inserted into a full
\* cache the evicted entry is the one least recently used, where both a hit
\* and an insertion count as a use.
C33_CacheBounded ==
    /\ Len(cache) <= CACHE_MAXSIZE
    /\ (/\ Watched("embed_one")
        /\ last.exc = ""
        /\ ~CacheHas(last.cache_before, last.text)
        /\ Len(last.cache_before) = CACHE_MAXSIZE)
       => /\ Len(cache) = CACHE_MAXSIZE
          /\ CachedTexts(cache)
               = (CachedTexts(last.cache_before)
                    \ {LeastRecent(last.cache_before, last.embeds_before)})
                 \cup {last.text}

\* a new text enters the full cache after the first text was used again:
\* the second text is evicted, the first stays
C33_Witness ==
    /\ Watched("embed_one")
    /\ last.exc = ""
    /\ Len(last.cache_before) = CACHE_MAXSIZE
    /\ ~CacheHas(last.cache_before, last.text)
    /\ TimesEmbedded(last.embeds_before, EText(1)) = 2
    /\ CacheHas(cache, EText(1))
    /\ CacheHas(last.cache_before, EText(2))
    /\ ~CacheHas(cache, EText(2))

\* C38: a failed embedding is never cached: when _embed_single(t) exhausts
\* its retries or rejects t as empty, the cache is unchanged, and a later
\* _embed_single(t) contacts the embedding service again (or rejects again)
\* instead of replaying a stored outcome.
C38_FailureNotCached ==
    /\ (Watched("embed_one") /\ last.exc # "")
       => (cache = last.cache_before /\ ~CacheHas(cache, last.text))
    /\ Watched("embed_again")
       => IF IsBlank(last.text)
          THEN last.exc = "ValueError" /\ last.attempts = 0
          ELSE /\ last.attempts >= 1
               /\ last.attempts = (IF last.nfail < MAX_RETRIES THEN last.nfail + 1
                                   ELSE MAX_RETRIES)
               /\ last.nfail < MAX_RETRIES
                  => (last.exc = "" /\ last.val = ServiceEmbedding(last.text))
               /\ last.nfail >= MAX_RETRIES
                  => (last.exc = "EmbeddingError" /\ cache = last.cache_before)

\* a text whose three attempts failed is embedded again, while the cache
\* holds other texts: the service is asked and answers on the first attempt
C38_Witness ==
    /\ Watched("embed_again")
    /\ last.first_exc = "EmbeddingError"
    /\ last.cache_before # <<>>
    /\ last.attempts = 1
    /\ last.exc = ""
    /\ CacheHas(cache, last.text)

(***************************************************************************)
(* C34: the chunks of upsert_batch (specification SpecBatch)               *)
(***************************************************************************)
\* the place of the document with this id in the watched batch
PlaceInBatch(id) == CHOOSE i \in 1..Len(last.documents) : last.documents[i].doc_id = id

\* the places of the k-th run of BATCH_SIZE consecutive documents
ChunkPlaces(k) ==
    {i \in 1..Len(last.documents) : (k - 1) * BATCH_SIZE < i /\ i <= k * BATCH_SIZE}

\* the contents of the k-th run that are not blank, in input order: the
\* texts of the run's embedding request
ChunkContents(k) ==
    LET lo == (k - 1) * BATCH_SIZE + 1
        hi == IF k * BATCH_SIZE < Len(last.documents)
              THEN k * BATCH_SIZE ELSE Len(last.documents)
        kept == SelectSeq(SubSeq(last.documents, lo, hi), LAMBDA d : ~IsBlank(d.content))
    IN  [n \in 1..Len(kept) |-> kept[n].content]

Increasing(ids) ==
    \A a, b \in 1..Len(ids) : a < b => PlaceInBatch(ids[a]) < PlaceInBatch(ids[b])

WriteEntries == SelectSeq(last.log, LAMBDA c : c.call = "write")

RECURSIVE Concat(_)
Concat(seqs) == IF seqs = <<>> THEN <<>> ELSE Head(seqs) \o Concat(Tail(seqs))

\* C34: upsert_batch processes the input in consecutive chunks of at most 20
\* documents in input order, issues at most one embedding request (before
\* retries) and at most one bulk write per chunk, writes chunk k before
\* embedding chunk k + 1, and returns the written documents in input order.
C34_ChunkOrder ==
    Watched("upsert_batch")
    => /\ \A a, b \in 1..Len(last.log) :
             a < b => /\ last.log[a].chunk <= last.log[b].chunk
                      /\ last.log[a].call = "write" => last.log[a].chunk < last.log[b].chunk
       /\ \A a \in 1..Len(last.log) :
             LET k == last.log[a].chunk
             IN  /\ ChunkPlaces(k) # {}
                 /\ IF last.log[a].call = "embed"
                    THEN /\ Len(last.log[a].input) <= BATCH_SIZE
                         /\ last.log[a].input = ChunkContents(k)
                         /\ Cardinality({b \in 1..Len(last.log) :
                                /\ last.log[b].call = "embed"
                                /\ last.log[b].chunk = k}) <= last.f.emb[k] + 1
                    ELSE /\ Len(last.log[a].ids) <= BATCH_SIZE
                         /\ \A n \in 1..Len(last.log[a].ids) :
                               PlaceInBatch(last.log[a].ids[n]) \in ChunkPlaces(k)
                         /\ Increasing(last.log[a].ids)
       /\ last.exc = ""
          => /\ [n \in 1..Len(last.val) |-> last.val[n].doc_id]
                  = Concat([n \in 1..Len(WriteEntries) |-> WriteEntries[n].ids])
             /\ Increasing([n \in 1..Len(last.val) |-> last.val[n].doc_id])

\* a batch of 2 * 20 + 1 documents, all written: three embedding requests
\* and three writes, alternating
C34_Witness ==
    /\ Watched("upsert_batch")
    /\ last.exc = ""
    /\ Len(last.documents) = 2 * BATCH_SIZE + 1
    /\ Len(last.val) = Len(last.documents)
    /\ Len(last.log) = 6
    /\ \A n \in 1..3 : /\ last.log[2 * n - 1].call = "embed"
                       /\ last.log[2 * n].call = "write"
                       /\ last.log[2 * n].chunk = n

(***************************************************************************)
(* C37: the remote calls of one search (specification SpecSearch)          *)
(***************************************************************************)
\* the places in the log of the watched search holding a call of these kinds
CallPlaces(kinds) == {i \in 1..Len(last.log) : last.log[i].call \in kinds}

\* the last-resort fetch is the call the handler of search_fallback makes
LastResortPlaces == IF HandlerRan(last) THEN {Len(last.log)} ELSE {}

\* stage 2 asks for "%project <word>%"; the patterns of stage 1 hold no space
Stage2Places == {i \in CallPlaces({"ilike"}) : \E n \in 1..Len(last.log[i].pattern) :
                                                   last.log[i].pattern[n] = " "}

Stage1Places == CallPlaces({"ilike"}) \ Stage2Places

Stage3Places == CallPlaces({"select"}) \ LastResortPlaces

\* C37: every search call terminates after a bounded number of remote calls,
\* whatever subset of them fails: at most 3 embedding attempts, 1 similarity
\* query, 4 stage-1 pattern queries, 1 stage-2 query, 1 stage-3 fetch and 1
\* last-resort fetch.
C37_BoundedCalls ==
    Watched("search")
    => /\ Cardinality(CallPlaces({"embed"})) <= MAX_RETRIES
       /\ Cardinality(CallPlaces({"rpc"})) <= 1
       /\ Cardinality(Stage1Places) <= LAST_SUFFIX_INDEX + 1
       /\ Cardinality(Stage2Places) <= 1
       /\ Cardinality(Stage3Places) <= 1
       /\ Cardinality(LastResortPlaces) <= 1
       /\ \A i \in Stage3Places : last.log[i].limit = FETCH_CAP
       /\ \A i \in LastResortPlaces : last.log[i].call = "select"
       /\ Len(last.log) <= MAX_RETRIES + LAST_SUFFIX_INDEX + 5
       /\ last.exc = ""

\* all three embedding attempts fail, the four patterns of stage 1 and the
\* pattern of stage 2 find nothing, the fetch of stage 3 fails and the
\* last-resort fetch fails as well
C37_Witness ==
    /\ Watched("search")
    /\ Cardinality(CallPlaces({"embed"})) = MAX_RETRIES
    /\ Cardinality(Stage1Places) = LAST_SUFFIX_INDEX + 1
    /\ Cardinality(Stage2Places) = 1
    /\ Cardinality(Stage3Places) = 1
    /\ Cardinality(LastResortPlaces) = 1
    /\ last.f.lastresort = "raise"
    /\ last.val = <<>>

(***************************************************************************)
(* C36: the reads leave the table alone (specification SpecSearch)         *)
(***************************************************************************)
ReadOps == {"search", "search_after", "get", "count"}

\* the remote calls that read: the embedding request, the SELECT statement
\* sent through exec_sql, and the select queries of the client
ReadCalls == {"embed", "rpc", "ilike", "select"}

\* C36: search (on every path, including all fallback stages), get and
\* count leave the stored rows unchanged: they never insert, replace or
\* delete a document, whether they succeed or absorb an error.
C36_ReadsKeepRows ==
    (last # Idle /\ last.op \in ReadOps)
    => /\ rows = last.before
       /\ last.op \in {"search", "search_after"}
          => \A i \in 1..Len(last.log) : last.log[i].call \in ReadCalls

\* a search over three stored documents whose embedding, fallback query and
\* last-resort fetch all fail: the errors are absorbed, the rows are kept
C36_Witness ==
    /\ Watched("search")
    /\ Len(last.before) = 3
    /\ rows = last.before
    /\ last.f.emb = MAX_RETRIES
    /\ HandlerRan(last)
    /\ last.f.lastresort = "raise"
    /\ last.val = <<>>

(***************************************************************************)
(* C35: concurrent calls of _embed_single (specification SpecShared)       *)
(***************************************************************************)
\* the service has returned this vector for this text
Returned(text, vec) == \E h \in 1..Len(embeds) : embeds[h] = <<text, vec>>

\* C35: under any interleaving of concurrent embed_one calls on the single
\* shared cache (including several concurrent misses for the same text), the
\* cache never holds more than its capacity of entries and every cached
\* entry maps a text to a vector the embedding service returned for exactly
\* that text.
C35_SharedCacheSound ==
    Watched("embed_pair")
    => /\ Len(cache) <= CACHE_MAXSIZE
       /\ Cardinality(CachedTexts(cache)) = Len(cache)
       /\ \A i \in 1..Len(cache) : Returned(cache[i][1], cache[i][2])
       /\ \A p \in 1..2 :
             (last.calls[p].pc = "done" /\ last.calls[p].exc = "")
             => Returned(last.calls[p].text, last.calls[p].val)

\* both threads missed the same new text while the cache was full, both
\* called the service, and both have stored their result
C35_Witness ==
    /\ Watched("embed_pair")
    /\ Len(last.cache_before) = CACHE_MAXSIZE
    /\ last.calls[1].text = last.calls[2].text
    /\ \A p \in 1..2 : last.calls[p].pc = "done" /\ last.calls[p].attempts = 1
    /\ CacheHas(cache, last.calls[1].text)
    /\ Len(cache) = CACHE_MAXSIZE

(***************************************************************************)
(* C39: delete of the memory service (specification SpecMemory)            *)
(***************************************************************************)
MemoryOps == {"memory_delete", "memory_search_after"}

\* the record the watched delete names, as it was held before the delete
DeletedRecord ==
    MemoryGet(last.before, last.app_id, last.user_id, last.session_id, last.record_id)

InDeletedSession(rec) ==
    /\ rec.app_id = last.app_id
    /\ rec.user_id = last.user_id
    /\ rec.session_id = last.session_id

\* the records of the sessions other than the one of the watched delete
OtherSessions(d) ==
    [n \in 1..Len(d) |-> <<d[n][1], SelectSeq(d[n][2], LAMBDA rec : ~InDeletedSession(rec))>>]

\* C39: in SupabaseMemoryService, after delete(app_id, user_id, session_id,
\* record_id) of a record that was created with store_in_vector_db set, the
\* record is no longer returned by get, by list, or by the service's search;
\* records of other sessions are unchanged.
C39_DeleteRemoves ==
    (/\ last # Idle
     /\ last.op \in MemoryOps
     /\ DeletedRecord # None
     /\ InDeletedSession(DeletedRecord)
     /\ StoreFlagged(DeletedRecord))
    => /\ MemoryGet(session_records, last.app_id, last.user_id, last.session_id,
                    last.record_id) = None
       /\ \A n \in 1..Len(MemoryList(session_records, last.app_id, last.user_id,
                                     last.session_id)) :
             MemoryList(session_records, last.app_id, last.user_id,
                        last.session_id)[n].id # last.record_id
       /\ OtherSessions(session_records) = OtherSessions(last.before)
       /\ last.op = "memory_search_after"
          => \A n \in 1..Len(last.val) : last.val[n].id # last.record_id

====
